---------------------------- MODULE Spec2Model ----------------------------
(***************************************************************************)
(* A model of the ToyCarGym driving simulator: the kinematic car           *)
(* (src/src/car/physics.rs), the Bezier-spline track (math_utils and       *)
(* car_sim/src/map), and the RL environment (car_sim/src/gym.rs,           *)
(* gym_car/src/lib.rs).                                                    *)
(*                                                                         *)
(* Numbers.  The program computes in f32.  Physical quantities (lengths,   *)
(* speeds, angles, rewards) are modelled in fixed point: the integer n     *)
(* stands for the real n / ONE, and products and quotients are truncated   *)
(* toward zero, so that every operation keeps the sign symmetry of the     *)
(* f32 operation it models.  The simulator clock t, about which the        *)
(* program's own test asserts an exact equality, is modelled bit-exactly:  *)
(* an f32 value is the integer count of TICK = 2^-26, and F32Round is      *)
(* IEEE round-to-nearest-even on a 24-bit significand.                     *)
(***************************************************************************)
EXTENDS Integers, Sequences, FiniteSets, TLC

(***************************************************************************)
(* Fixed-point arithmetic                                                  *)
(***************************************************************************)

\* The fixed-point unit: the integer ONE stands for 1.0.
ONE == 4096

Abs(a) == IF a < 0 THEN -a ELSE a

Max(a, b) == IF a >= b THEN a ELSE b

Min(a, b) == IF a <= b THEN a ELSE b

\* The element of a set of one element: The({F(x) : x \in {e}}) is F(e) with
\* e computed once, as "let x = e" of the program.
The(S) == CHOOSE x \in S : TRUE

\* f32::signum: 1.0 for +0.0 and positive numbers, -1.0 for negatives.
Signum(a) == IF a < 0 THEN -1 ELSE 1

\* Quotient truncated toward zero (TLA+'s \div rounds down).
TDiv(a, b) == Signum(a) * Signum(b) * (Abs(a) \div Abs(b))

\* x * y / ONE for x, y >= 0, rounded down.  The factors are split into their
\* integer and fractional parts so that no intermediate leaves 32 bits
\* whenever the result fits: x alone when y is below 2^19, both otherwise.
MulAbs(x, y) ==
    IF y < 524288
    THEN (x \div ONE) * y + ((x % ONE) * y) \div ONE
    ELSE (x \div ONE) * (y \div ONE) * ONE + (x \div ONE) * (y % ONE)
         + (x % ONE) * (y \div ONE) + ((x % ONE) * (y % ONE)) \div ONE

\* a * b / ONE, truncated toward zero.
Mul(a, b) ==
    IF (a < 0) = (b < 0) THEN MulAbs(Abs(a), Abs(b))
    ELSE -MulAbs(Abs(a), Abs(b))

\* a / b as a fixed-point number, truncated toward zero.  The quotient is
\* built from the integer part and the scaled remainder.  b /= 0.
Div(a, b) ==
    Signum(a) * Signum(b)
        * ((Abs(a) \div Abs(b)) * ONE + ((Abs(a) % Abs(b)) * ONE) \div Abs(b))

\* x * x <= n for x >= 0, without leaving 32 bits.
SquareFits(x, n) == x = 0 \/ x <= n \div x

\* One hexadecimal digit of the integer square root of n: r with the largest
\* multiple of w added whose square still fits.
SqrtDigit(n, r, w) ==
    r + w * (CHOOSE d \in 0..15 :
                 /\ SquareFits(r + d * w, n)
                 /\ (d = 15 \/ ~SquareFits(r + (d + 1) * w, n)))

\* Integer square root (floor) of n < 2^31, digit by digit.
ISqrtBits(n) ==
    SqrtDigit(n, SqrtDigit(n, SqrtDigit(n, SqrtDigit(n, 0, 4096), 256), 16), 1)

\* sqrt of a fixed-point number: sqrt(a/ONE) * ONE = sqrt(a * ONE), with ONE a
\* perfect square (64 * 64), and the argument scaled down by even powers of
\* two when a * ONE would leave 32 bits.
RECURSIVE SqrtScaled(_, _)
SqrtScaled(a, k) ==
    IF a <= 524287 THEN k * ISqrtBits(a * ONE)
    ELSE SqrtScaled(a \div 4, 2 * k)

Sqrt(a) == IF a <= 0 THEN 0 ELSE SqrtScaled(a, 1)

\* pi, pi/2 and 2*pi in fixed point.
PI == 12868

HALF_PI == PI \div 2

TWO_PI == 2 * PI

\* Taylor polynomials of sin and cos on [0, pi/2], in Horner form; x2 is the
\* square of x.
SinHorner(x, x2) ==
    Mul(x, ONE - Mul(x2, ONE - Mul(x2, ONE - Mul(x2, ONE - x2 \div 72)
                                              \div 42) \div 20) \div 6)

SinPoly(x) == SinHorner(x, Mul(x, x))

CosHorner(x2) ==
    ONE - Mul(x2, ONE - Mul(x2, ONE - Mul(x2, ONE - x2 \div 56) \div 30)
                        \div 12) \div 2

CosPoly(x) == CosHorner(Mul(x, x))

\* An angle r of [0, pi] folded to [0, pi/2].
FoldToHalfPi(r) == IF r > HALF_PI THEN PI - r ELSE r

\* The angle |x| reduced to [0, pi], where sin and cos of x follow by symmetry.
ReduceAngle(x) ==
    IF Abs(x) % TWO_PI > PI THEN TWO_PI - (Abs(x) % TWO_PI)
    ELSE Abs(x) % TWO_PI

\* f32::sin: sin(|x|) is positive on the upper half of the circle, and sin
\* is odd.
Sin(x) ==
    Signum(x) * (IF Abs(x) % TWO_PI <= PI THEN 1 ELSE -1)
        * SinPoly(FoldToHalfPi(ReduceAngle(x)))

\* f32::cos
Cos(x) ==
    (IF ReduceAngle(x) > HALF_PI THEN -1 ELSE 1)
        * CosPoly(FoldToHalfPi(ReduceAngle(x)))

\* f32::tan
Tan(x) == Div(Sin(x), Cos(x))

\* f32::to_radians: degrees (an integer count) to fixed-point radians.
ToRadians(deg) == TDiv(deg * PI, 180)

(***************************************************************************)
(* Vec2 (math_utils/src/vec.rs): a pair <<x, y>>                           *)
(***************************************************************************)

VAdd(a, b) == <<a[1] + b[1], a[2] + b[2]>>

VSub(a, b) == <<a[1] - b[1], a[2] - b[2]>>

VScale(a, k) == <<Mul(a[1], k), Mul(a[2], k)>>

VNeg(a) == <<-a[1], -a[2]>>

Dot(a, b) == Mul(a[1], b[1]) + Mul(a[2], b[2])

Rotate90(a) == <<-a[2], a[1]>>

NormSq(a) == Dot(a, a)

Norm(a) == Sqrt(NormSq(a))

VDiv(a, k) == <<Div(a[1], k), Div(a[2], k)>>

Normalized(a) == VDiv(a, Norm(a))

\* The rotation of a by the angle whose sine and cosine are given.
RotateBy(a, sin, cos) ==
    <<Mul(a[1], cos) - Mul(a[2], sin), Mul(a[1], sin) + Mul(a[2], cos)>>

Rotate(a, angle) == RotateBy(a, Sin(angle), Cos(angle))

(***************************************************************************)
(* Root finding and 1-D minimisation (math_utils/src/root.rs).             *)
(* The closures the program passes to find_root and                        *)
(* find_min_differentiable are values here: a record whose kind names the  *)
(* closure and whose other fields are what it captured; Eval applies it.   *)
(***************************************************************************)

HALF == ONE \div 2

\* Option<f32>
None == [some |-> FALSE]

Some(x) == [some |-> TRUE, x |-> x]

\* The position polynomial of CubicBezier::get.
BezierPoly(seg, t) ==
    <<seg.start[1] + Mul(seg.c1[1], t) + Mul(Mul(seg.c2[1], t), t)
          + Mul(Mul(Mul(seg.c3[1], t), t), t),
      seg.start[2] + Mul(seg.c1[2], t) + Mul(Mul(seg.c2[2], t), t)
          + Mul(Mul(Mul(seg.c3[2], t), t), t)>>

\* The spacing of the grid of find_min_differentiable on [0, 1].
GridDx == ONE \div 32

\* CubicBezier::get.  A segment carries the values of its position polynomial
\* on the grid of find_min_differentiable (samples[i + 1] = get(i / 32)): the
\* program evaluates the polynomial anew at every call, and the table only
\* saves the model from repeating it.
BezierGet(seg, t) ==
    IF t % GridDx = 0 /\ t >= 0 /\ t <= ONE /\ "samples" \in DOMAIN seg
    THEN seg.samples[t \div GridDx + 1]
    ELSE BezierPoly(seg, t)

\* CubicBezier::velocity
BezierVelocity(seg, t) ==
    <<seg.c1[1] + Mul(Mul(seg.c2[1], 2 * ONE), t)
          + Mul(Mul(Mul(seg.c3[1], 3 * ONE), t), t),
      seg.c1[2] + Mul(Mul(seg.c2[2], 2 * ONE), t)
          + Mul(Mul(Mul(seg.c3[2], 3 * ONE), t), t)>>

RECURSIVE SplineClosestPoint(_, _)

RECURSIVE Eval(_, _)

\* The closures over one segment, applied where the segment's point is p and
\* its velocity is v.
\*   coord / dcoord: fx, fy and their negations, and fpx, fpy, of _bounding_box
\*   dist / ddist:   f and fp of CubicBezier::closest_point
SegmentClosure(fn, p, v) ==
    CASE fn.kind = "coord"  -> fn.sign * p[fn.axis]
      [] fn.kind = "dcoord" -> fn.sign * v[fn.axis]
      [] fn.kind = "dist"   -> NormSq(VSub(p, fn.point))
      [] fn.kind = "ddist"  -> Mul(Dot(VSub(p, fn.point), v), 2 * ONE)

\* The closures of the program, applied to x; edge is edge_deviation of
\* SplineMap::ray_collision, square is |x| x*x - c of test_root (c = 9.0)
\* and of test_min (c = 0.0), dsquare its derivative |x| 2.0*x.
Eval(fn, x) ==
    IF fn.kind = "edge"
    THEN SplineClosestPoint(fn.spline,
             VAdd(fn.inside_point, VScale(fn.step, x))).distance_sq
         - fn.max_d2
    ELSE IF fn.kind = "square" THEN Mul(x, x) - fn.c
    ELSE IF fn.kind = "dsquare" THEN Mul(2 * ONE, x)
    ELSE SegmentClosure(fn, BezierGet(fn.seg, x), BezierVelocity(fn.seg, x))

\* FunctionObservation::new, with sign in {-1, 0, 1}
FunctionObservation(x, value) ==
    [x |-> x, value |-> value,
     sign |-> IF value = 0 THEN 0 ELSE IF value < 0 THEN -1 ELSE 1]

\* FunctionObservation::new(x, f(x))
ObservationAt(fn, x) == FunctionObservation(x, Eval(fn, x))

\* Mutant of IntervalUpdate: the observation replaces the other end.
IntervalUpdateMirrored(self, observation) ==
    IF observation.sign = 0 THEN [root |-> TRUE, x |-> observation.x]
    ELSE IF (self.parity = "Rising" /\ observation.sign = 1)
            \/ (self.parity = "Falling" /\ observation.sign = -1)
    THEN [root |-> FALSE, interval |-> [self EXCEPT !.left = observation]]
    ELSE [root |-> FALSE, interval |-> [self EXCEPT !.right = observation]]

\* OpenInterval::update: the BisectionUpdate, a Root or an Interval.  An
\* OpenInterval is a record of left, right and parity ("Rising" or "Falling").
IntervalUpdate(self, observation) ==
    IF observation.sign = 0 THEN [root |-> TRUE, x |-> observation.x]
    ELSE IF (self.parity = "Rising" /\ observation.sign = 1)
            \/ (self.parity = "Falling" /\ observation.sign = -1)
    THEN [root |-> FALSE, interval |-> [self EXCEPT !.right = observation]]
    ELSE [root |-> FALSE, interval |-> [self EXCEPT !.left = observation]]

\* The iteration cap of find_root's loop.
MaxIterations == 20

\* The while loop of find_root from update, which is the Root the loop
\* returned with or the Interval it holds, after iteration passes.
RECURSIVE Bisect(_, _, _, _)
Bisect(fn, update, width_threshold, iteration) ==
    IF update.root
       \/ ~(update.interval.right.x - update.interval.left.x > width_threshold)
       \/ ~(iteration < MaxIterations)
    THEN update
    ELSE Bisect(fn,
                IntervalUpdate(update.interval,
                    ObservationAt(fn, Mul(HALF, update.interval.left.x
                                                + update.interval.right.x))),
                width_threshold, iteration + 1)

\* The end of find_root: the root a pass returned with, or the linear
\* two-point estimate on the final interval.
BisectMatch(update) ==
    IF update.root THEN Some(update.x)
    ELSE Some(update.interval.left.x
              - Mul(update.interval.left.value,
                    Div(update.interval.right.x - update.interval.left.x,
                        update.interval.right.value
                        - update.interval.left.value)))

\* The value of iteration when the while loop of find_root is left, by a
\* return or by its condition: the number of midpoints evaluated.
RECURSIVE BisectPasses(_, _, _, _)
BisectPasses(fn, update, width_threshold, iteration) ==
    IF update.root
       \/ ~(update.interval.right.x - update.interval.left.x > width_threshold)
       \/ ~(iteration < MaxIterations)
    THEN iteration
    ELSE BisectPasses(fn,
             IntervalUpdate(update.interval,
                 ObservationAt(fn, Mul(HALF, update.interval.left.x
                                             + update.interval.right.x))),
             width_threshold, iteration + 1)

\* The number of midpoints find_root evaluates from the observations at the
\* two ends: none when it returns from its first match.
MidpointsBetween(fn, left, right, width_threshold) ==
    IF left.sign = 0 \/ right.sign = 0 \/ left.sign = right.sign THEN 0
    ELSE BisectPasses(fn,
             [root |-> FALSE,
              interval |->
                  [left |-> left, right |-> right,
                   parity |-> IF left.sign = -1 THEN "Rising"
                              ELSE "Falling"]],
             width_threshold, 0)

\* Mutant of FindRootBetween: the right end is matched before the left.
FindRootBetweenRightFirst(fn, left, right, width_threshold) ==
    IF right.sign = 0 THEN Some(right.x)
    ELSE IF left.sign = 0 THEN Some(left.x)
    ELSE IF left.sign = right.sign THEN None
    ELSE BisectMatch(
             Bisect(fn,
                    [root |-> FALSE,
                     interval |->
                         [left |-> left, right |-> right,
                          parity |-> IF left.sign = -1 THEN "Rising"
                                     ELSE "Falling"]],
                    width_threshold, 0))

\* find_root from the observations at the two ends
FindRootBetween(fn, left, right, width_threshold) ==
    IF left.sign = 0 THEN Some(left.x)
    ELSE IF right.sign = 0 THEN Some(right.x)
    ELSE IF left.sign = right.sign THEN None
    ELSE BisectMatch(
             Bisect(fn,
                    [root |-> FALSE,
                     interval |->
                         [left |-> left, right |-> right,
                          parity |-> IF left.sign = -1 THEN "Rising"
                                     ELSE "Falling"]],
                    width_threshold, 0))

\* find_root
find_root(fn, x_min, x_max, width_threshold) ==
    FindRootBetween(fn, ObservationAt(fn, x_min), ObservationAt(fn, x_max),
                    width_threshold)

\* find_local_min_differentiable
find_local_min_differentiable(fp, x_min, x_max, width_threshold) ==
    IF Eval(fp, x_min) > 0 \/ Eval(fp, x_max) < 0 THEN None
    ELSE find_root(fp, x_min, x_max, width_threshold)

\* The number of grid intervals of find_min_differentiable.
GridSteps == 32

\* The samples of find_min_differentiable on the grid: the value at each
\* index 0..GridSteps.
GridSamples(f, x_min, dx) ==
    {[i |-> i, value |-> Eval(f, x_min + i * dx)] : i \in 0..GridSteps}

\* The closure of the fold of find_min_differentiable, as an order: the
\* sample l is kept against r when it is smaller, or equal and later (the
\* later sample replaces the kept one on Less and on Equal).
FoldSample(l, r) == l.value < r.value \/ (l.value = r.value /\ l.i >= r.i)

\* Mutant of GridArgMin: the fold keeps its first sample.
GridArgFirst(samples) == CHOOSE l \in samples : l.i = 0

\* The fold of find_min_differentiable over the samples: the index and value
\* of the smallest sample, the latest of the smallest.
GridArgMin(samples) ==
    CHOOSE l \in samples : \A r \in samples : FoldSample(l, r)

\* The final match of find_min_differentiable: the local minimum replaces the
\* grid sample only when its value is strictly less.
MinObservation(xi, value_i, x_lm, value_lm) ==
    IF value_lm < value_i THEN FunctionObservation(x_lm, value_lm)
    ELSE FunctionObservation(xi, value_i)

\* The "if let" of find_min_differentiable on the local minimum lm.
MinAround(f, xi, value_i, lm) ==
    IF lm.some THEN MinObservation(xi, value_i, lm.x, Eval(f, lm.x))
    ELSE FunctionObservation(xi, value_i)

\* find_min_differentiable from the minimizing sample of the grid on: xi is
\* x_min + best.i * dx, and the local minimum is sought within dx of it.
MinFromGrid(f, fp, x_min, x_max, width_threshold, dx, best) ==
    MinAround(f, x_min + best.i * dx, best.value,
        find_local_min_differentiable(fp,
            Max(x_min + best.i * dx - dx, x_min),
            Min(x_min + best.i * dx + dx, x_max), width_threshold))

\* find_min_differentiable on the grid of spacing dx.
MinOnGrid(f, fp, x_min, x_max, width_threshold, dx) ==
    The({MinFromGrid(f, fp, x_min, x_max, width_threshold, dx, best) :
            best \in {GridArgMin(GridSamples(f, x_min, dx))}})

\* find_min_differentiable
find_min_differentiable(f, fp, x_min, x_max, width_threshold) ==
    MinOnGrid(f, fp, x_min, x_max, width_threshold,
              TDiv(x_max - x_min, GridSteps))

(***************************************************************************)
(* Cubic Bezier segments and the smooth spline (math_utils/src/spline.rs)  *)
(***************************************************************************)

\* BoundingBox::new
BoundingBox(min_x, max_x, min_y, max_y) ==
    [min_x |-> min_x, max_x |-> max_x, min_y |-> min_y, max_y |-> max_y,
     corners |-> << <<min_x, min_y>>, <<min_x, max_y>>,
                    <<max_x, min_y>>, <<max_x, max_y>> >>]

\* Mutant of BBoxMatch: the corner above the box on the left is taken for
\* the corner below it.
BBoxMatchFlippedCorner(box, x, y, a, b, c, d) ==
    CASE a /\ c -> <<box.min_x, box.min_y>>
      [] a /\ d -> <<box.min_x, box.min_y>>
      [] b /\ d -> <<box.max_x, box.max_y>>
      [] b /\ c -> <<box.max_x, box.min_y>>
      [] ~a /\ ~b /\ ~c /\ ~d -> <<x, y>>
      [] a /\ ~b /\ ~c /\ ~d -> <<box.min_x, y>>
      [] ~a /\ b /\ ~c /\ ~d -> <<box.max_x, y>>
      [] ~a /\ ~b /\ c /\ ~d -> <<x, box.min_y>>
      [] ~a /\ ~b /\ ~c /\ d -> <<x, box.max_y>>
      [] OTHER -> "panic"

\* The match of BoundingBox::closest_point on (a, b, c, d), the arms in the
\* program's order; the two panicking arms yield "panic".
BBoxMatch(box, x, y, a, b, c, d) ==
    CASE a /\ c -> <<box.min_x, box.min_y>>
      [] a /\ d -> <<box.min_x, box.max_y>>
      [] b /\ d -> <<box.max_x, box.max_y>>
      [] b /\ c -> <<box.max_x, box.min_y>>
      [] ~a /\ ~b /\ ~c /\ ~d -> <<x, y>>
      [] a /\ ~b /\ ~c /\ ~d -> <<box.min_x, y>>
      [] ~a /\ b /\ ~c /\ ~d -> <<box.max_x, y>>
      [] ~a /\ ~b /\ c /\ ~d -> <<x, box.min_y>>
      [] ~a /\ ~b /\ ~c /\ d -> <<x, box.max_y>>
      [] OTHER -> "panic"

\* BoundingBox::closest_point
BBoxClosestPoint(box, point) ==
    BBoxMatch(box, point[1], point[2],
              point[1] <= box.min_x, point[1] > box.max_x,
              point[2] <= box.min_y, point[2] > box.max_y)

\* A corner with its squared distance to the point
CornerDistance(corner, point) ==
    [corner |-> corner, d2 |-> NormSq(VSub(point, corner))]

\* The closure of the reduce of BoundingBox::farthest_point: a later corner
\* replaces the kept one only when strictly farther.
FartherCorner(best, other) == IF other.d2 > best.d2 THEN other ELSE best

\* The reduce of BoundingBox::farthest_point over corners i..4.
RECURSIVE FarthestCorner(_, _, _, _)
FarthestCorner(box, point, i, best) ==
    IF i > 4 THEN best.corner
    ELSE FarthestCorner(box, point, i + 1,
             FartherCorner(best, CornerDistance(box.corners[i], point)))

\* BoundingBox::farthest_point
BBoxFarthestPoint(box, point) ==
    FarthestCorner(box, point, 2, CornerDistance(box.corners[1], point))

\* The sum over i in lo..hi of |velocity(t_start + i*dt)| * dt in _arc_length
\* (the range is halved so that the evaluation stays shallow).
RECURSIVE ArcInner(_, _, _, _, _)
ArcInner(seg, t_start, dt, lo, hi) ==
    IF lo > hi THEN 0
    ELSE IF lo = hi
    THEN Mul(Norm(BezierVelocity(seg, t_start + lo * dt)), dt)
    ELSE ArcInner(seg, t_start, dt, lo, (lo + hi) \div 2)
         + ArcInner(seg, t_start, dt, (lo + hi) \div 2 + 1, hi)

\* The trapezoid rule of _arc_length with the step dt.
Trapezoid(seg, t_start, t_end, steps, dt) ==
    ArcInner(seg, t_start, dt, 1, steps - 1)
    + Mul(Mul(HALF, dt), Norm(BezierVelocity(seg, t_start))
                         + Norm(BezierVelocity(seg, t_end)))

\* CubicBezier::_arc_length: the trapezoid rule on |velocity|.
BezierArcLengthRaw(seg, t_start, t_end, steps) ==
    Trapezoid(seg, t_start, t_end, steps, TDiv(t_end - t_start, steps))

\* The subdivisions of the trapezoid rule.
ArcSteps == 32

\* The tolerance 1e-4 of _bounding_box and 1e-2 of closest_point and
\* ray_collision, in fixed point.
EpsBox == ONE \div 10000

EpsClosest == ONE \div 100

\* One minimisation of _bounding_box: the minimum of sign * coordinate
\* (axis 1 is x, 2 is y) over the segment.
CoordMin(seg, axis, sign) ==
    find_min_differentiable(
        [kind |-> "coord", seg |-> seg, axis |-> axis, sign |-> sign],
        [kind |-> "dcoord", seg |-> seg, axis |-> axis, sign |-> sign],
        0, ONE, EpsBox).value

\* CubicBezier::_bounding_box
BezierBoundingBox(seg) ==
    BoundingBox(CoordMin(seg, 1, 1), -CoordMin(seg, 1, -1),
                CoordMin(seg, 2, 1), -CoordMin(seg, 2, -1))

\* The coefficients of CubicBezier::new
BezierCoefficients(start, p1, p2, end) ==
    [start |-> start, p1 |-> p1, p2 |-> p2, end |-> end,
     c1 |-> VScale(VSub(p1, start), 3 * ONE),
     c2 |-> VAdd(VSub(VScale(start, 3 * ONE), VScale(p1, 6 * ONE)),
                 VScale(p2, 3 * ONE)),
     c3 |-> VAdd(VSub(VAdd(VNeg(start), VScale(p1, 3 * ONE)),
                      VScale(p2, 3 * ONE)), end)]

\* The segment with what CubicBezier::new caches (the arc length and the
\* bounding box) and the table of BezierGet.
BezierCached(raw) ==
    [start |-> raw.start, p1 |-> raw.p1, p2 |-> raw.p2, end |-> raw.end,
     c1 |-> raw.c1, c2 |-> raw.c2, c3 |-> raw.c3,
     samples |-> [i \in 1..33 |-> BezierPoly(raw, (i - 1) * GridDx)],
     arc_length |-> BezierArcLengthRaw(raw, 0, ONE, ArcSteps),
     bounding_box |-> BezierBoundingBox(raw)]

\* CubicBezier::new
CubicBezier(start, p1, p2, end) ==
    BezierCached(BezierCoefficients(start, p1, p2, end))

\* CubicBezier::arc_length: the cached length at t = 1.
BezierArcLength(seg, t) ==
    IF t = ONE THEN seg.arc_length
    ELSE BezierArcLengthRaw(seg, 0, t, ArcSteps)

\* The ClosestPointOutput of the minimum o found by closest_point.
ClosestOfMin(o) == [parameter |-> o.x, distance_sq |-> o.value]

\* CubicBezier::closest_point
BezierClosestPoint(seg, point) ==
    ClosestOfMin(find_min_differentiable(
                     [kind |-> "dist", seg |-> seg, point |-> point],
                     [kind |-> "ddist", seg |-> seg, point |-> point],
                     0, ONE, EpsClosest))

\* The spline of a list of segments, with max_u
SplineOfSegments(segments) ==
    [segments |-> segments, max_u |-> Len(segments) * ONE]

\* Mutant of SmoothBezierSpline: the handle before the end of a segment is
\* the end point plus the velocity of its control.
SmoothBezierSplineHandleAhead(controls) ==
    SplineOfSegments(
        [i \in 1..(Len(controls) - 1) |->
            CubicBezier(controls[i].point,
                        VAdd(controls[i].point, controls[i].velocity),
                        VAdd(controls[i + 1].point, controls[i + 1].velocity),
                        controls[i + 1].point)])

\* SmoothBezierSpline::new; controls is a non-empty sequence of
\* [point, velocity] records (the program asserts that it is not empty).
SmoothBezierSpline(controls) ==
    SplineOfSegments(
        [i \in 1..(Len(controls) - 1) |->
            CubicBezier(controls[i].point,
                        VAdd(controls[i].point, controls[i].velocity),
                        VSub(controls[i + 1].point, controls[i + 1].velocity),
                        controls[i + 1].point)])

\* SmoothBezierSpline::new with its assertion: the panic on an empty list of
\* controls, the spline of the windows of two controls otherwise.
SmoothBezierSplineNew(controls) ==
    IF controls = <<>>
    THEN [ok |-> FALSE,
          panic |-> "Tried to construct SmoothBezierSpline with empty control points."]
    ELSE [ok |-> TRUE, spline |-> SmoothBezierSpline(controls)]

\* Mutant of segment_and_t: without the edge case of u >= max_u.
segment_and_t_unguarded(spline, u) ==
    [i |-> Max(Min(u, spline.max_u), 0) \div ONE,
     t |-> Max(Min(u, spline.max_u), 0) % ONE]

\* SmoothBezierSpline::segment_and_t: the segment's index (from 0, as in the
\* program) and the local t.
segment_and_t(spline, u) ==
    IF u >= spline.max_u
    THEN [i |-> Len(spline.segments) - 1, t |-> ONE]
    ELSE [i |-> Max(Min(u, spline.max_u), 0) \div ONE,
          t |-> Max(Min(u, spline.max_u), 0) % ONE]

\* SmoothBezierSpline::get
SplineGet(spline, u) ==
    BezierGet(spline.segments[segment_and_t(spline, u).i + 1],
              segment_and_t(spline, u).t)

\* SmoothBezierSpline::velocity
SplineVelocity(spline, u) ==
    BezierVelocity(spline.segments[segment_and_t(spline, u).i + 1],
                   segment_and_t(spline, u).t)

\* The sum of the full lengths of segments lo..hi, 0 when there is none; the
\* range is summed by halves, which for these exact sums is the iterator's
\* sum from left to right.
RECURSIVE PreviousLength(_, _, _)
PreviousLength(spline, lo, hi) ==
    IF lo > hi THEN 0
    ELSE IF lo = hi THEN BezierArcLength(spline.segments[lo], ONE)
    ELSE PreviousLength(spline, lo, (lo + hi) \div 2)
         + PreviousLength(spline, (lo + hi) \div 2 + 1, hi)

\* Mutant of ArcLengthTo: the prior segments are left out.
ArcLengthOnSegment(spline, st) ==
    BezierArcLength(spline.segments[st.i + 1], st.t)

\* The arc length up to the segment and t of st: the prior segments in
\* full, plus the arc length on the active segment.
ArcLengthTo(spline, st) ==
    PreviousLength(spline, 1, st.i)
    + BezierArcLength(spline.segments[st.i + 1], st.t)

\* SmoothBezierSpline::arc_length
SplineArcLength(spline, u) == ArcLengthTo(spline, segment_and_t(spline, u))

\* SmoothBezierSpline::total_length
SplineTotalLength(spline) ==
    SplineArcLength(spline, Len(spline.segments) * ONE)

\* f32::INFINITY, the initial upper_bound of closest_point: larger than every
\* squared distance the model computes.
INFINITY == 2147483647

\* closest_d2 of the first loop of closest_point, for segment n.
ClosestD2(spline, point, n) ==
    NormSq(VSub(BBoxClosestPoint(spline.segments[n].bounding_box, point),
                point))

\* farthest_d2 of the first loop of closest_point, for segment n.
FarthestD2(spline, point, n) ==
    NormSq(VSub(BBoxFarthestPoint(spline.segments[n].bounding_box, point),
                point))

\* The least element of a non-empty set of numbers.
SetMin(S) == CHOOSE x \in S : \A y \in S : x <= y

\* Mutant of BoxScan: upper_bound falls to the closest-corner distances.
BoxScanClosestBound(spline, point) ==
    [upper_bound |->
        SetMin({INFINITY} \cup {ClosestD2(spline, point, n) :
                                    n \in 1..Len(spline.segments)}),
     min_d2 |-> [n \in 1..Len(spline.segments) |->
                    ClosestD2(spline, point, n)]]

\* The first loop of closest_point: the squared distance to each bounding
\* box (min_d2) and upper_bound, which starts at infinity and falls to every
\* smaller farthest-corner distance, so ends at the least of them all.
BoxScan(spline, point) ==
    [upper_bound |->
        SetMin({INFINITY} \cup {FarthestD2(spline, point, n) :
                                    n \in 1..Len(spline.segments)}),
     min_d2 |-> [n \in 1..Len(spline.segments) |->
                    ClosestD2(spline, point, n)]]

\* The map of closest_point on segment n (counted from 1): the segment's
\* closest point o with the index added to its parameter.
SplineCandidate(n, o) ==
    [parameter |-> (n - 1) * ONE + o.parameter, distance_sq |-> o.distance_sq]

\* The filter_map of closest_point: the candidates of the segments whose box
\* is not farther than upper_bound.
Candidates(spline, point, scan) ==
    {SplineCandidate(n, BezierClosestPoint(spline.segments[n], point)) :
        n \in {m \in 1..Len(spline.segments) :
                  ~(scan.min_d2[m] > scan.upper_bound)}}

\* The closure of the fold of closest_point, as an order: the kept candidate
\* acc stays against cand unless cand is strictly closer. Of two equally
\* close candidates the one of the earlier segment is kept, which is the one
\* of the smaller parameter.
FoldCandidate(acc, cand) ==
    acc.distance_sq < cand.distance_sq
    \/ (acc.distance_sq = cand.distance_sq /\ acc.parameter <= cand.parameter)

\* The fold of closest_point over the candidates: None when there is none.
CandidateFold(cands) ==
    IF cands = {} THEN [some |-> FALSE]
    ELSE [some |-> TRUE,
          out |-> CHOOSE acc \in cands :
                      \A cand \in cands : FoldCandidate(acc, cand)]

\* The expect of closest_point on the fold's result; "panic" when it fails.
ExpectCandidate(best) == IF best.some THEN best.out ELSE "panic"

\* SmoothBezierSpline::closest_point
SplineClosestPoint(spline, point) ==
    ExpectCandidate(
        CandidateFold(Candidates(spline, point, BoxScan(spline, point))))

(***************************************************************************)
(* The track (car_sim/src/map/spline_map.rs)                               *)
(***************************************************************************)

\* BezierControl with coordinates in tenths (the racetrack's literals have one
\* decimal)
ControlTenths(px, py, vx, vy) ==
    [point |-> <<TDiv(px * ONE, 10), TDiv(py * ONE, 10)>>,
     velocity |-> <<TDiv(vx * ONE, 10), TDiv(vy * ONE, 10)>>]

\* SplineMap::new
SplineMap(spline, width) ==
    [spline |-> spline, width |-> width,
     max_d2 |-> Mul(Mul(ONE \div 4, width), width)]

\* Mutant of point_inside: a point at exactly max_d2 is inside.
point_inside_closed(road, point) ==
    SplineClosestPoint(road.spline, point).distance_sq <= road.max_d2

\* SplineMap::point_inside
point_inside(road, point) ==
    SplineClosestPoint(road.spline, point).distance_sq < road.max_d2

\* make_oval
make_oval ==
    SplineMap(
        SmoothBezierSpline(<<
            ControlTenths(0, 0, 60, 0),
            ControlTenths(100, 100, 0, 60),
            ControlTenths(0, 200, -60, 0),
            ControlTenths(-200, 200, -60, 0),
            ControlTenths(-300, 100, 0, -60),
            ControlTenths(-200, 0, 60, 0),
            ControlTenths(0, 0, 60, 0) >>),
        8 * ONE)

\* make_racetrack
make_racetrack ==
    SplineMap(
        SmoothBezierSpline(<<
            ControlTenths(0, 0, -300, 40),
            ControlTenths(-1684, 245, -300, 40),
            ControlTenths(-2460, 366, -60, 60),
            ControlTenths(-2600, 676, -60, 60),
            ControlTenths(-2960, 776, -80, 80),
            ControlTenths(-3425, 1926, -80, 300),
            ControlTenths(-3650, 3006, -80, 160),
            ControlTenths(-4175, 4008, -20, 160),
            ControlTenths(-4020, 4376, 100, 80),
            ControlTenths(-3410, 4456, 240, -100),
            ControlTenths(-1890, 3676, 320, -180),
            ControlTenths(-568, 2772, 120, -40),
            ControlTenths(440, 2566, 80, -30),
            ControlTenths(670, 2206, 0, -200),
            ControlTenths(330, 1826, -140, -40),
            ControlTenths(-561, 1949, -190, 100),
            ControlTenths(-1475, 2520, -150, 40),
            ControlTenths(-1771, 2491, -70, -40),
            ControlTenths(-1943, 2269, -30, -100),
            ControlTenths(-1968, 1469, 40, -90),
            ControlTenths(-1610, 1186, 160, 0),
            ControlTenths(-1193, 1321, 80, 40),
            ControlTenths(-712, 1451, 150, 0),
            ControlTenths(-325, 1352, 80, -32),
            ControlTenths(1566, 573, 80, -32),
            ControlTenths(1762, 339, 0, -150),
            ControlTenths(1528, -31, -120, -60),
            ControlTenths(1017, -137, -120, 0),
            ControlTenths(0, 0, -300, 40) >>),
        10 * ONE)

\* is_crashed from the back point on: one of the two points is not inside.
CrashedFromBack(road, state, config, back_point) ==
    \E p \in {back_point,
              VAdd(back_point, VScale(state.unit_forward, config.length))} :
        ~point_inside(road, p)

\* SplineMap::is_crashed
is_crashed(road, state, config) ==
    CrashedFromBack(road, state, config,
        VSub(state.position, VScale(state.unit_forward, config.back_axle)))

\* The p of the loop of ray_collision after k passes that did not break: k
\* steps added to it, one after another (the additions are exact).
RayPoint(p, step, k) == <<p[1] + k * step[1], p[2] + k * step[2]>>

\* The passes of the loop looked at together in the model.
RayBlock == 8

\* Those of the next RayBlock passes of the loop from p that would break:
\* pass k (from 0) breaks when its next_p, k + 1 steps from p, is not inside.
BreakingPasses(road, p, step) ==
    {k \in 0..(RayBlock - 1) : ~point_inside(road, RayPoint(p, step, k + 1))}

RECURSIVE InsidePoint(_, _, _)

\* The break of the loop at the first pass that breaks, or the loop going
\* on after the passes looked at when none of them does.
InsideOrNext(road, p, step, breaks) ==
    IF breaks = {} THEN InsidePoint(road, RayPoint(p, step, RayBlock), step)
    ELSE RayPoint(p, step, SetMin(breaks))

\* The loop of ray_collision: the last point p, stepping from p, whose
\* successor p + step is not inside.
InsidePoint(road, p, step) ==
    InsideOrNext(road, p, step, BreakingPasses(road, p, step))

\* Mutant of EdgePoint: the first point outside is returned.
EdgePointOutside(inside_point, step, t) ==
    IF t.some THEN VAdd(inside_point, step) ELSE "panic"

\* Mutant of EdgePoint: the point at the root t behind inside_point.
EdgePointBehind(inside_point, step, t) ==
    IF t.some THEN VSub(inside_point, VScale(step, t.x)) ELSE "panic"

\* The end of ray_collision: the point at the root t; "panic" is the failed
\* expect on find_root.
EdgePoint(inside_point, step, t) ==
    IF t.some THEN VAdd(inside_point, VScale(step, t.x)) ELSE "panic"

\* The bisection of ray_collision from inside_point.
EdgeFrom(road, inside_point, step) ==
    EdgePoint(inside_point, step,
        find_root([kind |-> "edge", spline |-> road.spline,
                   inside_point |-> inside_point, step |-> step,
                   max_d2 |-> road.max_d2],
                  0, ONE, EpsClosest))

\* Mutant of RayWithStep: from a point that is not inside, one step is taken.
RayWithStepTaken(road, point, step) ==
    IF ~point_inside(road, point) THEN VAdd(point, step)
    ELSE The({EdgeFrom(road, inside_point, step) :
                 inside_point \in {InsidePoint(road, point, step)}})

\* ray_collision with the step vector computed.
RayWithStep(road, point, step) ==
    IF ~point_inside(road, point) THEN point
    ELSE The({EdgeFrom(road, inside_point, step) :
                 inside_point \in {InsidePoint(road, point, step)}})

\* SplineMap::ray_collision
ray_collision(road, point, direction) ==
    The({RayWithStep(road, point, step) :
            step \in {VScale(Normalized(direction),
                             Mul(road.width, ONE \div 10))}})

(***************************************************************************)
(* The LiDAR fan (car_sim/src/lidar.rs, car_sim/src/map/traits.rs)         *)
(***************************************************************************)

\* Mutant of RevNeg: the angles are negated in the order given.
RevNegUnreversed(angles) == [j \in 1..Len(angles) |-> -angles[j]]

\* The reversed, negated copy of a list of angles.
RECURSIVE RevNeg(_)
RevNeg(angles) ==
    IF angles = <<>> THEN <<>>
    ELSE Append(RevNeg(Tail(angles)), -Head(angles))

\* LidarArray::new, from angles in whole degrees
LidarArray(angles) ==
    [angles |-> [j \in 1..(2 * Len(angles) + 1) |->
                    ToRadians((RevNeg(angles) \o <<0>> \o angles)[j])]]

\* LidarArray::n_angles
n_angles(lidar) == Len(lidar.angles)

\* The reading along one direction: the projection of the intersection
LidarReading(road, state, direction) ==
    The({Dot(direction, VSub(intersection, state.position)) :
            intersection \in {ray_collision(road, state.position, direction)}})

\* The intersections of the rays of Road::read_lidar
LidarIntersections(road, state, lidar) ==
    [j \in 1..Len(lidar.angles) |->
        ray_collision(road, state.position,
                      Rotate(state.unit_forward, lidar.angles[j]))]

\* Road::read_lidar
read_lidar(road, state, lidar) ==
    [j \in 1..Len(lidar.angles) |->
        LidarReading(road, state,
                     Rotate(state.unit_forward, lidar.angles[j]))]

(***************************************************************************)
(* The kinematic car (src/car/physics.rs)                                  *)
(***************************************************************************)

\* CarConfig::default
CarConfigDefault ==
    [length |-> 3 * ONE, front_axle |-> ONE \div 2,
     back_axle |-> (5 * ONE) \div 2, max_delta |-> ONE \div 2,
     acceleration |-> 6 * ONE, brake_acceleration |-> 8 * ONE,
     steer_speed |-> (7 * ONE) \div 10]

\* CarState::default
CarStateDefault ==
    [position |-> <<0, 0>>, speed |-> 8 * ONE, unit_forward |-> <<ONE, 0>>,
     steer_delta |-> 0]

\* inv_turn_radius
inv_turn_radius(config, delta) == Div(Tan(delta), config.length)

\* Mutant of steer_update: the wheel is not clipped to the target.
steer_update_unclipped(delta, target_delta, dt, config) ==
    delta + Mul(dt * Signum(target_delta - delta), config.steer_speed)

\* Mutant of ClipToTarget: the wheel jumps to the target at once.
ClipToTargetAlways(target_delta, direction, new_delta) == target_delta

\* The end of steer_update: the wheel is clipped to the target if the
\* update moves beyond it.
ClipToTarget(target_delta, direction, new_delta) ==
    IF (target_delta - new_delta) * direction > 0 THEN new_delta
    ELSE target_delta

\* steer_update with the direction computed.
SteerToward(delta, target_delta, dt, config, direction) ==
    ClipToTarget(target_delta, direction,
                 delta + Mul(dt * direction, config.steer_speed))

\* CarState::steer_update
steer_update(delta, target_delta, dt, config) ==
    SteerToward(delta, target_delta, dt, config, Signum(target_delta - delta))

\* dv of update
SpeedChange(speed, input, dt, config) ==
    IF input.braking
    THEN Mul(dt, -Signum(speed) * config.brake_acceleration + input.forward_acc)
    ELSE Mul(dt, input.forward_acc)

\* Mutant of AvgSpeed: the average speed is never replaced by 0.
AvgSpeedUnclamped(speed, avg_speed) == avg_speed

\* avg_speed of update, from speed + 0.5*dv; avg_speed * speed > 0.0 holds
\* when both are nonzero and of the same sign.
AvgSpeed(speed, avg_speed) ==
    IF (avg_speed > 0 /\ speed > 0) \/ (avg_speed < 0 /\ speed < 0)
    THEN avg_speed ELSE 0

\* Mutant of Displacement: the forward factor lacks its leading 1.
DisplacementWithoutLead(signed_inv_radius, arc, signed_radians_traversed, phi) ==
    <<Mul(arc, Mul(ONE \div 6, Mul(phi, phi))),
      Mul(Mul(HALF, arc), signed_radians_traversed)>>

\* The pair (forward, left) of update: the forward and lateral displacements
Displacement(signed_inv_radius, arc, signed_radians_traversed, phi) ==
    IF phi > ONE
    THEN <<Mul(Div(ONE, Abs(signed_inv_radius)), Sin(phi)),
           Mul(Div(ONE, Abs(signed_inv_radius)), ONE - Cos(phi))>>
    ELSE <<Mul(arc, ONE - Mul(ONE \div 6, Mul(phi, phi))),
           Mul(Mul(HALF, arc), signed_radians_traversed)>>

\* The state that update returns, from the displacements on.
UpdateDisplaced(self, steer_delta, new_speed, signed_radians_traversed, displacement) ==
    [position |->
        VAdd(VAdd(self.position, VScale(self.unit_forward, displacement[1])),
             VScale(Rotate90(self.unit_forward), displacement[2])),
     speed |-> new_speed,
     unit_forward |-> Rotate(self.unit_forward, signed_radians_traversed),
     steer_delta |-> steer_delta]

\* update from the angle traversed on.
UpdateAlongArc(self, steer_delta, new_speed, signed_inv_radius, arc, signed_radians_traversed) ==
    UpdateDisplaced(self, steer_delta, new_speed, signed_radians_traversed,
        Displacement(signed_inv_radius, arc, signed_radians_traversed,
                     Abs(signed_radians_traversed)))

\* update from the turning circle on.
UpdateOnCircle(self, steer_delta, new_speed, signed_inv_radius, arc) ==
    UpdateAlongArc(self, steer_delta, new_speed, signed_inv_radius, arc,
                   Mul(arc, signed_inv_radius))

\* update from the new wheel angle and the speed change on.
UpdateWithSpeed(self, dt, config, steer_delta, dv) ==
    UpdateOnCircle(self, steer_delta, Max(self.speed + dv, 0),
                   inv_turn_radius(config, steer_delta),
                   Mul(AvgSpeed(self.speed, self.speed + Mul(HALF, dv)), dt))

\* CarState::update
CarStateUpdate(self, input, dt, config) ==
    UpdateWithSpeed(self, dt, config,
        steer_update(self.steer_delta, input.target_delta, dt, config),
        SpeedChange(self.speed, input, dt, config))

(***************************************************************************)
(* The f32 clock.  The clock t and the time step dt are kept bit-exact:    *)
(* an integer n stands for the f32 value n * 2^-26, which represents 0.2f32*)
(* (13421773 * 2^-26), 0.25 and 1.0 exactly.  An f32 result is the exact   *)
(* result rounded to 24 significant bits, ties to even.                    *)
(***************************************************************************)

TICK == 67108864

Significand == 16777216

\* The spacing of f32 values around the exact value x > 0 (in ticks).
RECURSIVE Quantum(_, _)
Quantum(x, q) == IF x < Significand * q THEN q ELSE Quantum(x, 2 * q)

\* Round-to-nearest, ties-to-even: lo is the multiple of q below the exact
\* value and rem what is left.
RoundTies(q, lo, rem) ==
    IF 2 * rem < q THEN lo
    ELSE IF 2 * rem > q THEN lo + q
    ELSE IF (lo \div q) % 2 = 0 THEN lo ELSE lo + q

\* x rounded to a multiple of the spacing q
RoundToQuantum(x, q) == RoundTies(q, (x \div q) * q, x - (x \div q) * q)

\* An exact non-negative value rounded to f32
F32Round(x) == RoundToQuantum(x, Quantum(x, 1))

\* f32 addition
F32Add(a, b) == F32Round(a + b)

\* f32 product of a whole number n (as f32) and b
F32MulInt(n, b) == F32Round(n * b)

\* The value of an f32 time step in the fixed-point representation of the
\* integrator.
ToFixed(ticks) == ticks \div (TICK \div ONE)

(***************************************************************************)
(* The simulator (car_sim/src/gym.rs)                                      *)
(***************************************************************************)

\* enum Action, with its discriminants
ActionOrdinal ==
    [Left |-> 0, Right |-> 1, Accelerate |-> 2, Brake |-> 3, Coast |-> 4]

\* Action as u8
AsU8(action) == ActionOrdinal[action]

\* Mutant of TryFrom: a byte above the last ordinal decodes to Coast.
TryFromSaturating(value) ==
    CASE value = 0 -> [ok |-> TRUE, action |-> "Left"]
      [] value = 1 -> [ok |-> TRUE, action |-> "Right"]
      [] value = 2 -> [ok |-> TRUE, action |-> "Accelerate"]
      [] value = 3 -> [ok |-> TRUE, action |-> "Brake"]
      [] OTHER -> [ok |-> TRUE, action |-> "Coast"]

\* impl TryFrom<u8> for Action
TryFrom(value) ==
    CASE value = AsU8("Left") -> [ok |-> TRUE, action |-> "Left"]
      [] value = AsU8("Right") -> [ok |-> TRUE, action |-> "Right"]
      [] value = AsU8("Accelerate") -> [ok |-> TRUE, action |-> "Accelerate"]
      [] value = AsU8("Brake") -> [ok |-> TRUE, action |-> "Brake"]
      [] value = AsU8("Coast") -> [ok |-> TRUE, action |-> "Coast"]
      [] OTHER -> [ok |-> FALSE, error |-> "InvalidActionError"]

\* RewardConfig::default
RewardConfigDefault ==
    [travel_coeff |-> ONE, center_coeff |-> 2 * ONE,
     crash_reward |-> -100 * ONE, center_integral_coeff |-> ONE]

\* The lidar fan of the model, in degrees (LidarArray::default lists nine
\* angles; the fan is shortened to keep the ray casts of one observation few).
LidarDegrees == <<90>>

\* SimConfig::default; dt is 0.2f32
SimConfigDefault ==
    [car |-> CarConfigDefault, reward |-> RewardConfigDefault,
     lidar |-> LidarArray(LidarDegrees), dt |-> 13421773]

\* Simulator::new
SimulatorNew(config, road) ==
    [config |-> config, road |-> road, state |-> CarStateDefault,
     t |-> 0, i |-> 0]

\* Mutant of SimulatorReset: the clock is left as it was.
SimulatorResetKeepsClock(self) ==
    [self EXCEPT !.state = CarStateDefault, !.i = 0]

\* Simulator::reset
SimulatorReset(self) ==
    [self EXCEPT !.state = CarStateDefault, !.t = 0, !.i = 0]

\* Mutant of StepInput: Left and Right steer the other way.
StepInputMirrored(action, car_cfg) ==
    [forward_acc |-> IF action = "Accelerate" THEN car_cfg.acceleration ELSE 0,
     target_delta |-> IF action = "Left" THEN -car_cfg.max_delta
                      ELSE IF action = "Right" THEN car_cfg.max_delta ELSE 0,
     braking |-> action = "Brake"]

\* The match on the action in Simulator::step
StepInput(action, car_cfg) ==
    CASE action = "Left" ->
           [forward_acc |-> 0, target_delta |-> car_cfg.max_delta,
            braking |-> FALSE]
      [] action = "Right" ->
           [forward_acc |-> 0, target_delta |-> -car_cfg.max_delta,
            braking |-> FALSE]
      [] action = "Accelerate" ->
           [forward_acc |-> car_cfg.acceleration, target_delta |-> 0,
            braking |-> FALSE]
      [] action = "Brake" ->
           [forward_acc |-> 0, target_delta |-> 0, braking |-> TRUE]
      [] action = "Coast" ->
           [forward_acc |-> 0, target_delta |-> 0, braking |-> FALSE]

\* The f32 remainder a % b (fmod: the sign of the dividend)
FMod(a, b) == a - b * TDiv(a, b)

\* Mutant of Travel: the difference of the arc lengths, not wrapped.
TravelUnwrapped(travel1, travel2, total_length) == travel2 - travel1

\* The wrapped travel of Simulator::reward
Travel(travel1, travel2, total_length) ==
    FMod(travel2 - travel1 + Mul((3 * ONE) \div 2, total_length), total_length)
        - Mul(HALF, total_length)

\* The sum that Simulator::reward returns
RewardSum(rcfg, dt, travel, d_sq_decrease, distance_sq, crashed) ==
    Mul(rcfg.travel_coeff, travel)
      + Mul(rcfg.center_coeff, d_sq_decrease)
      - Mul(Mul(rcfg.center_integral_coeff, distance_sq), dt)
      + rcfg.crash_reward * (IF crashed THEN 1 ELSE 0)

\* Simulator::reward from the closest points c1 of state and c2 of new_state
RewardBetween(self, c1, c2, crashed) ==
    The({RewardSum(self.config.reward, ToFixed(self.config.dt),
                   Travel(travel1, travel2, total_length),
                   c2.distance_sq - c1.distance_sq, c2.distance_sq, crashed) :
            travel1 \in {SplineArcLength(self.road.spline, c1.parameter)},
            travel2 \in {SplineArcLength(self.road.spline, c2.parameter)},
            total_length \in {SplineTotalLength(self.road.spline)}})

\* Mutant of SimulatorReward: both closest points are those of the new state.
SimulatorRewardOfNewState(self, state, new_state, crashed) ==
    The({RewardBetween(self, c2, c2, crashed) :
            c2 \in {SplineClosestPoint(self.road.spline, new_state.position)}})

\* Simulator::reward
SimulatorReward(self, state, new_state, crashed) ==
    The({RewardBetween(self, c1, c2, crashed) :
            c1 \in {SplineClosestPoint(self.road.spline, state.position)},
            c2 \in {SplineClosestPoint(self.road.spline, new_state.position)}})

\* Mutant of Transition: the clock is left as it was.
TransitionKeepsClock(self, new_state, dt) ==
    [self EXCEPT !.state = new_state, !.i = self.i + 1]

\* "Do the transition" of Simulator::step
Transition(self, new_state, dt) ==
    [self EXCEPT !.state = new_state, !.t = F32Add(self.t, dt), !.i = self.i + 1]

\* Simulator::step from the crash test on: the simulator after the
\* transition, the TransitionObservation returned, and the input handed to the
\* integrator.
StepCrashed(self, input, new_state, crashed) ==
    [sim |-> Transition(self, new_state, self.config.dt),
     out |-> [reward |-> SimulatorReward(self, self.state, new_state, crashed),
              done |-> crashed],
     input |-> input]

\* Simulator::step from the new state on.
StepToState(self, input, new_state) ==
    The({StepCrashed(self, input, new_state, crashed) :
            crashed \in {is_crashed(self.road, new_state, self.config.car)}})

\* Simulator::step from the input on.
StepWithInput(self, input) ==
    The({StepToState(self, input, new_state) :
            new_state \in {CarStateUpdate(self.state, input,
                                          ToFixed(self.config.dt),
                                          self.config.car)}})

\* Simulator::step
SimulatorStep(self, action) ==
    StepWithInput(self, StepInput(action, self.config.car))

\* The fields steer_delta and speed that RacingEnv::observe destructures from
\* StateObservation: the wheel angle and the speed of the current state.
StateObservationExtras(self) ==
    [steer_delta |-> self.state.steer_delta, speed |-> self.state.speed]

\* Simulator::observe
SimulatorObserve(self) ==
    [lidar_readings |-> read_lidar(self.road, self.state, self.config.lidar),
     steer_delta |-> StateObservationExtras(self).steer_delta,
     speed |-> StateObservationExtras(self).speed]

\* Simulator::get_t
get_t(self) == self.t

\* Simulator::get_i
get_i(self) == self.i

(***************************************************************************)
(* The environment facade (gym_car/src/lib.rs)                             *)
(***************************************************************************)

\* RacingEnv::reset
RacingEnvReset(self, seed) == [self EXCEPT !.sim = SimulatorReset(self.sim)]

\* The SimConfig of RacingEnv::new: the default with dt replaced if given.
NewConfig(dt) ==
    IF dt.some THEN [SimConfigDefault EXCEPT !.dt = dt.x] ELSE SimConfigDefault

\* RacingEnv::new; dt is None or Some f32, the reward options are left None.
RacingEnvNew(dt, observe_delta, observe_speed, seed) ==
    RacingEnvReset([sim |-> SimulatorNew(NewConfig(dt), make_racetrack),
                    observe_delta |-> observe_delta,
                    observe_speed |-> observe_speed],
                   None)

\* Mutant of StepResult: the step puts the time step back to its default.
StepResultDefaultDt(self, action, r) ==
    [env |-> [self EXCEPT !.sim = [r.sim EXCEPT !.config.dt = SimConfigDefault.dt]],
     result |-> [ok |-> TRUE, reward |-> r.out.reward, done |-> r.out.done,
                 decoded |-> action, input |-> r.input]]

\* What RacingEnv::step returns for the simulator's result r
StepResult(self, action, r) ==
    [env |-> [self EXCEPT !.sim = r.sim],
     result |-> [ok |-> TRUE, reward |-> r.out.reward, done |-> r.out.done,
                 decoded |-> action, input |-> r.input]]

\* RacingEnv::step from the decoded action on.
StepDecoded(self, action, decoded) ==
    IF ~decoded.ok
    THEN [env |-> self,
          result |-> [ok |-> FALSE, error |-> "PyValueError", value |-> action]]
    ELSE StepResult(self, decoded.action,
                    SimulatorStep(self.sim, decoded.action))

\* RacingEnv::step: the environment after the call and what the call returns
RacingEnvStep(self, action) == StepDecoded(self, action, TryFrom(action))

\* data.push(x) under a flag
PushIf(flag, data, x) == IF flag THEN Append(data, x) ELSE data

\* Mutant of ObservationData: speed is pushed before steer_delta.
ObservationDataSpeedFirst(self, obs) ==
    PushIf(self.observe_delta,
           PushIf(self.observe_speed, obs.lidar_readings, obs.speed),
           obs.steer_delta)

\* The vector that RacingEnv::observe builds from the StateObservation
ObservationData(self, obs) ==
    PushIf(self.observe_speed,
           PushIf(self.observe_delta, obs.lidar_readings, obs.steer_delta),
           obs.speed)

\* RacingEnv::observe
RacingEnvObserve(self) ==
    The({ObservationData(self, obs) : obs \in {SimulatorObserve(self.sim)}})

\* RacingEnv::observation_dim
observation_dim(self) ==
    n_angles(self.sim.config.lidar)
        + (IF self.observe_delta THEN 1 ELSE 0)
        + (IF self.observe_speed THEN 1 ELSE 0)

(***************************************************************************)
(* The state machine: one RacingEnv driven through its interface           *)
(***************************************************************************)

VARIABLES
    env,    \* the RacingEnv: sim (config, road, state, t, i) and the two flags
    ret,    \* the last operation called and what it returned
    hist,   \* history of the episode: steps since the last reset, done seen;
            \* a reset records in ret whether the episode it ends had a crash
    calc    \* the arguments and result of a function applied on its own

vars == <<env, ret, hist, calc>>

\* Steps of one episode in the specification with observations
MaxSteps == 2

\* Steps of one episode in the specification of long drives
DriveSteps == 7

\* Steps of an episode in which the driver may do anything; it coasts after
ManoeuvreSteps == 1

\* Action bytes tried: 0..4 are the actions, the rest are invalid
MaxActionByte == 5

\* The largest seed tried
MaxSeed == 1

\* Constructor arguments tried: dt left out (0.2), 0.25 and 1.0, and the four
\* settings of the observation flags
NewArgs ==
    {[dt |-> None, observe_delta |-> TRUE, observe_speed |-> TRUE],
     [dt |-> Some(TICK \div 4), observe_delta |-> FALSE, observe_speed |-> FALSE],
     [dt |-> Some(TICK), observe_delta |-> TRUE, observe_speed |-> FALSE],
     [dt |-> Some(TICK), observe_delta |-> FALSE, observe_speed |-> TRUE]}

SeedChoices == {None} \cup {Some(n) : n \in 1..MaxSeed}

NoCalc == [fn |-> "none"]

\* No environment is constructed where the functions are applied on their own
NoEnv == [sim |-> "none"]

Init ==
    /\ \E a \in NewArgs :
         env = RacingEnvNew(a.dt, a.observe_delta, a.observe_speed, None)
    /\ ret = [op |-> "new"]
    /\ hist = [steps |-> 0, done_seen |-> FALSE]
    /\ calc = NoCalc

\* The call of RacingEnv::step returns r: the environment is replaced, and
\* the episode is one step longer if the step was carried out.
StepReturns(action, r) ==
    /\ env' = r.env
    /\ ret' = [op |-> "step", action |-> action, result |-> r.result]
    /\ hist' = IF r.result.ok
               THEN [steps |-> hist.steps + 1,
                     done_seen |-> hist.done_seen \/ r.result.done]
               ELSE hist

\* A call of RacingEnv::step with an action byte
StepOp(action) ==
    /\ hist.steps < ManoeuvreSteps \/ action >= AsU8("Coast")
    /\ StepReturns(action, RacingEnvStep(env, action))
    /\ UNCHANGED calc

\* A step of a short episode
Step(action) == hist.steps < MaxSteps /\ StepOp(action)

\* A step of a long drive
Drive(action) == hist.steps < DriveSteps /\ StepOp(action)

\* A call of RacingEnv::reset
Reset(seed) ==
    /\ env' = RacingEnvReset(env, seed)
    /\ ret' = [op |-> "reset", crashed |-> hist.done_seen]
    /\ hist' = [steps |-> 0, done_seen |-> FALSE]
    /\ UNCHANGED calc

\* A call of RacingEnv::observe
Observe ==
    /\ ret' = [op |-> "observe", data |-> RacingEnvObserve(env),
               dim |-> observation_dim(env)]
    /\ UNCHANGED <<env, hist, calc>>

Next ==
    \/ \E action \in 0..MaxActionByte : Step(action)
    \/ \E seed \in SeedChoices : Reset(seed)
    \/ Observe

\* Short episodes with every operation of the environment
Spec == Init /\ [][Next]_vars

NextDrive ==
    \/ \E action \in 0..MaxActionByte : Drive(action)
    \/ \E seed \in SeedChoices : Reset(seed)

\* Long drives: step and reset only (observe takes &self and changes nothing)
SpecDrive == Init /\ [][NextDrive]_vars

(***************************************************************************)
(* Functions applied on their own: CarState::update on states and inputs   *)
(* within the ranges the configuration allows, and the travel wrap of the  *)
(* reward on arc lengths of a track of a given length.                     *)
(***************************************************************************)

\* The longest track of the travel wrap, in units
MaxTrack == 4

\* Wheel angles and targets handed to update: the limits and values between
WheelAngles ==
    {-CarConfigDefault.max_delta, -1, 0, CarConfigDefault.max_delta \div 2,
     CarConfigDefault.max_delta}

\* The arguments drawn: speeds, wheel angles, accelerations and time steps for
\* update, and arc lengths on tracks of 1..MaxTrack units for the travel wrap
InitCalc ==
    /\ env = NoEnv
    /\ ret = [op |-> "none"]
    /\ hist = [steps |-> 0, done_seen |-> FALSE]
    /\ \/ \E speed \in {0, 1, 4 * ONE, 8 * ONE},
             delta \in WheelAngles, target \in WheelAngles,
             acc \in {-CarConfigDefault.acceleration, 0,
                      CarConfigDefault.acceleration},
             braking \in BOOLEAN,
             dt \in {1, ToFixed(SimConfigDefault.dt), ONE} :
            calc = [fn |-> "update", done |-> FALSE,
                    state |-> [CarStateDefault EXCEPT !.speed = speed,
                                                      !.steer_delta = delta],
                    input |-> [forward_acc |-> acc, target_delta |-> target,
                               braking |-> braking],
                    dt |-> dt]
       \/ \E k \in 1..MaxTrack :
            \E j1 \in 0..(2 * k), j2 \in 0..(2 * k) :
              calc = [fn |-> "travel", done |-> FALSE,
                      travel1 |-> j1 * HALF, travel2 |-> j2 * HALF,
                      total_length |-> k * ONE]

\* CarState::update applied to the drawn state and input
ApplyUpdate ==
    /\ calc.fn = "update" /\ ~calc.done
    /\ calc' = [fn |-> "update", done |-> TRUE, state |-> calc.state,
                input |-> calc.input, dt |-> calc.dt,
                out |-> CarStateUpdate(calc.state, calc.input, calc.dt,
                                       CarConfigDefault)]
    /\ UNCHANGED <<env, ret, hist>>

\* The travel of Simulator::reward applied to the drawn arc lengths
ApplyTravel ==
    /\ calc.fn = "travel" /\ ~calc.done
    /\ calc' = [fn |-> "travel", done |-> TRUE, travel1 |-> calc.travel1,
                travel2 |-> calc.travel2, total_length |-> calc.total_length,
                out |-> Travel(calc.travel1, calc.travel2, calc.total_length)]
    /\ UNCHANGED <<env, ret, hist>>

NextCalc == ApplyUpdate \/ ApplyTravel

SpecCalc == InitCalc /\ [][NextCalc]_vars

(***************************************************************************)
(* Functions of the spline applied on their own: SmoothBezierSpline::new   *)
(* on lists of up to MaxControls controls, and the functions of the spline *)
(* it returns.                                                             *)
(***************************************************************************)

\* The longest list of controls handed to SmoothBezierSpline::new
MaxControls == 3

\* The controls of setup_spline, of the spline of test_arclength, the first
\* controls of make_racetrack, and controls of which one has no velocity (the
\* first segment turns back at t = 0.5 and comes to rest at t = 1)
ControlLists ==
    {<<[point |-> <<0, 0>>, velocity |-> <<0, ONE>>],
       [point |-> <<ONE, 0>>, velocity |-> <<0, -ONE>>],
       [point |-> <<2 * ONE, 0>>, velocity |-> <<0, ONE>>]>>,
     <<[point |-> <<0, 0>>, velocity |-> <<4 * ONE, 3 * ONE>>],
       [point |-> <<12 * ONE, 9 * ONE>>, velocity |-> <<4 * ONE, 3 * ONE>>],
       [point |-> <<24 * ONE, 18 * ONE>>, velocity |-> <<4 * ONE, 3 * ONE>>]>>,
     <<ControlTenths(0, 0, -300, 40),
       ControlTenths(-1684, 245, -300, 40),
       ControlTenths(-2460, 366, -60, 60),
       ControlTenths(-2600, 676, -60, 60)>>,
     <<[point |-> <<0, 0>>, velocity |-> <<60 * ONE, 60 * ONE>>],
       [point |-> <<30 * ONE, 30 * ONE>>, velocity |-> <<0, 0>>],
       [point |-> <<60 * ONE, 30 * ONE>>, velocity |-> <<30 * ONE, 0>>]>>}

\* A list of controls is drawn: the first n of one of the lists, n from 0
InitSpline ==
    /\ env = NoEnv
    /\ ret = [op |-> "none"]
    /\ hist = [steps |-> 0, done_seen |-> FALSE]
    /\ \E controls \in ControlLists :
         \E n \in 0..Min(MaxControls, Len(controls)) :
           calc = [fn |-> "controls", controls |-> SubSeq(controls, 1, n)]

\* SmoothBezierSpline::new applied to the drawn controls
ApplySplineNew ==
    /\ calc.fn = "controls"
    /\ calc' = [fn |-> "new", controls |-> calc.controls,
                out |-> SmoothBezierSplineNew(calc.controls)]
    /\ UNCHANGED <<env, ret, hist>>

\* The spacing of the parameters u handed to arc_length
UStep == ONE \div 64

\* SmoothBezierSpline::arc_length applied to two parameters of the spline
\* that new returned, and total_length; the calls index a segment, so the
\* spline has one.
ApplyArcLength(u1, u2) ==
    /\ calc.fn = "new" /\ calc.out.ok
    /\ Len(calc.out.spline.segments) >= 1
    /\ u1 <= calc.out.spline.max_u /\ u2 <= calc.out.spline.max_u
    /\ calc' = [fn |-> "arc_length", controls |-> calc.controls,
                spline |-> calc.out.spline, u1 |-> u1, u2 |-> u2,
                out |-> [length1 |-> SplineArcLength(calc.out.spline, u1),
                         length2 |-> SplineArcLength(calc.out.spline, u2),
                         length_max |-> SplineArcLength(calc.out.spline,
                                                        calc.out.spline.max_u),
                         total_length |-> SplineTotalLength(calc.out.spline)]]
    /\ UNCHANGED <<env, ret, hist>>

\* get and velocity of the spline that new returned at every whole parameter
\* k in 0..N, and the velocity of every segment at its end.
ApplyJoints ==
    /\ calc.fn = "new" /\ calc.out.ok
    /\ Len(calc.out.spline.segments) >= 1
    /\ calc' = [fn |-> "joints", controls |-> calc.controls,
                spline |-> calc.out.spline,
                out |-> [get |-> [k \in 0..Len(calc.out.spline.segments) |->
                                    SplineGet(calc.out.spline, k * ONE)],
                         velocity |->
                             [k \in 0..Len(calc.out.spline.segments) |->
                                 SplineVelocity(calc.out.spline, k * ONE)],
                         end_velocity |->
                             [i \in 1..Len(calc.out.spline.segments) |->
                                 BezierVelocity(calc.out.spline.segments[i],
                                                ONE)]]]
    /\ UNCHANGED <<env, ret, hist>>

NextSpline ==
    \/ ApplySplineNew
    \/ \E j \in 0..(64 * (MaxControls - 1)), d \in {1, 8, 64} :
         ApplyArcLength(j * UStep, (j + d) * UStep)
    \/ ApplyJoints

\* SmoothBezierSpline::new and the functions of the spline on their own
SpecSpline == InitSpline /\ [][NextSpline]_vars

(***************************************************************************)
(* Functions of the road applied on their own: is_crashed and read_lidar   *)
(* of the oval for cars placed across its first straight.                  *)
(***************************************************************************)

\* The farthest a car is placed from the centerline, in half units
MaxOffset == 9

\* The fan of the rays cast from the placed cars, in degrees
FanDegrees == <<30, 90>>

\* A car is placed: at the joint of the oval's start or on its straight,
\* up to MaxOffset half units to either side, heading along an axis
InitRoad ==
    /\ env = NoEnv
    /\ ret = [op |-> "none"]
    /\ hist = [steps |-> 0, done_seen |-> FALSE]
    /\ \E x \in {0, -5 * ONE}, j \in (-MaxOffset)..MaxOffset,
          unit_forward \in {<<ONE, 0>>, <<0, ONE>>, <<-ONE, 0>>, <<0, -ONE>>} :
          calc = [fn |-> "car",
                  state |-> [CarStateDefault EXCEPT
                                !.position = <<x, j * HALF>>,
                                !.unit_forward = unit_forward]]

\* SplineMap::is_crashed applied to the placed car
ApplyIsCrashed ==
    /\ calc.fn = "car"
    /\ calc' = [fn |-> "is_crashed", state |-> calc.state,
                out |-> is_crashed(make_oval, calc.state, CarConfigDefault)]
    /\ UNCHANGED <<env, ret, hist>>

\* Road::read_lidar applied to the placed car, with the intersections of
\* its rays
ApplyReadLidar ==
    /\ calc.fn = "car"
    /\ calc' = [fn |-> "read_lidar", state |-> calc.state,
                lidar |-> LidarArray(FanDegrees),
                intersections |-> LidarIntersections(make_oval, calc.state,
                                                     LidarArray(FanDegrees)),
                out |-> read_lidar(make_oval, calc.state,
                                   LidarArray(FanDegrees))]
    /\ UNCHANGED <<env, ret, hist>>

NextRoad == ApplyIsCrashed \/ ApplyReadLidar

\* is_crashed and read_lidar on their own
SpecRoad == InitRoad /\ [][NextRoad]_vars

(***************************************************************************)
(* Properties of step, reset and the action byte                           *)
(***************************************************************************)

\* The clock after n steps: dt added n times in f32.
RECURSIVE ClockAfter(_, _)
ClockAfter(n, dt) == IF n = 0 THEN 0 ELSE F32Add(ClockAfter(n - 1, dt), dt)

\* dt is a power of two (every sum of a few of them is an f32)
IsPowerOfTwo(dt) == \E k \in 0..30 : dt = 2 ^ k

\* The last call was a step that was carried out
Stepped == ret.op = "step" /\ ret.result.ok

\* C1, as the code has it: every step that is carried out, crashing or not,
\* commits the integrator's new state, adds 1 to i and adds dt to t in f32;
\* so n steps after a reset get_i() = n and get_t() is dt added n times in
\* f32, which is n*dt when dt is a power of two.
C1_StepCommits ==
    [][(ret'.op = "step" /\ ret'.result.ok) =>
         LET dt == env.sim.config.dt
         IN  /\ env'.sim.state = CarStateUpdate(env.sim.state, ret'.result.input,
                                                ToFixed(dt), env.sim.config.car)
             /\ ret'.result.done =
                    is_crashed(env.sim.road, env'.sim.state, env.sim.config.car)
             /\ get_i(env'.sim) = get_i(env.sim) + 1
             /\ get_t(env'.sim) = F32Add(get_t(env.sim), dt)
             /\ get_i(env'.sim) = hist'.steps
             /\ get_t(env'.sim) = ClockAfter(hist'.steps, dt)
             /\ IsPowerOfTwo(dt) => get_t(env'.sim) = F32MulInt(hist'.steps, dt)
      ]_vars

\* A crashing step of an episode's later steps has been committed.
C1_Witness ==
    /\ Stepped /\ ret.result.done
    /\ hist.steps > 1
    /\ get_i(env.sim) = hist.steps
    /\ get_t(env.sim) = ClockAfter(hist.steps, env.sim.config.dt)

\* C1 as stated: n steps after a reset get_i() = n and get_t() = n*dt (the
\* f32 product, as test_stable computes it).
C1_ClockIsProduct ==
    /\ get_i(env.sim) = hist.steps
    /\ get_t(env.sim) = F32MulInt(hist.steps, env.sim.config.dt)

\* C2: after reset, from any state, and after construction the car state is
\* CarState::default(), t = 0 and i = 0.
C2_ResetRestoresDefaults ==
    ret.op \in {"reset", "new"} =>
        /\ env.sim.state = CarStateDefault
        /\ get_t(env.sim) = 0
        /\ get_i(env.sim) = 0

\* A reset that ended an episode with a crash.
C2_Witness == ret.op = "reset" /\ ret.crashed /\ get_i(env.sim) = 0

\* C3: a step with a byte outside 0..4 returns the invalid-action error with
\* the byte and leaves the environment as it was: no step is counted and no
\* reward is computed.
C3_InvalidActionRejected ==
    [][(ret'.op = "step" /\ ret'.action \notin 0..4) =>
         /\ ~ret'.result.ok
         /\ ret'.result.error = "PyValueError"
         /\ ret'.result.value = ret'.action
         /\ DOMAIN ret'.result = {"ok", "error", "value"}
         /\ env' = env
         /\ hist' = hist
      ]_vars

\* An invalid byte was rejected after the car had moved.
C3_Witness ==
    /\ ret.op = "step" /\ ret.action \notin 0..4 /\ ~ret.result.ok
    /\ hist.steps > 0 /\ get_i(env.sim) = hist.steps

\* The table of actions of the specification
ActionTable(car_cfg) ==
    [Left |-> [forward_acc |-> 0, target_delta |-> car_cfg.max_delta,
               braking |-> FALSE],
     Right |-> [forward_acc |-> 0, target_delta |-> -car_cfg.max_delta,
                braking |-> FALSE],
     Accelerate |-> [forward_acc |-> car_cfg.acceleration, target_delta |-> 0,
                     braking |-> FALSE],
     Brake |-> [forward_acc |-> 0, target_delta |-> 0, braking |-> TRUE],
     Coast |-> [forward_acc |-> 0, target_delta |-> 0, braking |-> FALSE]]

\* C4: bytes 0..4 decode to Left, Right, Accelerate, Brake, Coast, the cast
\* back gives the byte, and the step hands the integrator the table's input.
C4_ActionDecoding ==
    /\ \A b \in 0..4 :
         /\ TryFrom(b).ok
         /\ TryFrom(b).action =
                <<"Left", "Right", "Accelerate", "Brake", "Coast">>[b + 1]
         /\ AsU8(TryFrom(b).action) = b
    /\ Stepped =>
         /\ ret.action \in 0..4
         /\ ret.result.decoded = TryFrom(ret.action).action
         /\ ret.result.input = ActionTable(env.sim.config.car)[ret.result.decoded]

\* A Right step was carried out.
C4_Witness ==
    /\ Stepped /\ ret.action = 1 /\ ret.result.decoded = "Right"
    /\ ret.result.input.target_delta = -env.sim.config.car.max_delta

\* C5: once a step of the episode has returned done, every later step of the
\* episode returns done.
C5_DoneStaysTrue == (Stepped /\ hist.done_seen) => ret.result.done

(***************************************************************************)
(* Properties of the integrator and of the travel wrap                     *)
(***************************************************************************)

\* C6: from a state with speed >= 0 and the wheel within +-max_delta, with a
\* target within +-max_delta and dt > 0, update returns a state with
\* speed >= 0 and the wheel within +-max_delta.
C6_UpdateKeepsRanges ==
    (/\ calc.fn = "update" /\ calc.done
     /\ calc.state.speed >= 0
     /\ Abs(calc.state.steer_delta) <= CarConfigDefault.max_delta
     /\ Abs(calc.input.target_delta) <= CarConfigDefault.max_delta
     /\ calc.dt > 0)
    => /\ calc.out.speed >= 0
       /\ calc.out.steer_delta >= -CarConfigDefault.max_delta
       /\ calc.out.steer_delta <= CarConfigDefault.max_delta

\* Braking from a positive speed ended at speed 0, and the wheel reached the
\* limit it was turned to.
C6_Witness ==
    /\ calc.fn = "update" /\ calc.done
    /\ calc.input.braking /\ calc.state.speed > 0 /\ calc.out.speed = 0
    /\ calc.input.target_delta = CarConfigDefault.max_delta
    /\ calc.state.steer_delta < CarConfigDefault.max_delta
    /\ calc.out.steer_delta = CarConfigDefault.max_delta

\* The separation L2 - L1 of the drawn arc lengths
Separation == calc.travel2 - calc.travel1

\* C10, as the code has it: travel is congruent to L2 - L1 modulo T and lies
\* in [-T/2, +T/2); it equals the separation D whenever -T/2 <= D < T/2, and
\* at D = +T/2 it is -T/2.
C10_TravelWrap ==
    (calc.fn = "travel" /\ calc.done) =>
        LET T == calc.total_length
            D == Separation
        IN  /\ (calc.out - D) % T = 0
            /\ 2 * calc.out >= -T
            /\ 2 * calc.out < T
            /\ (2 * D >= -T /\ 2 * D < T) => calc.out = D
            /\ 2 * D = T => calc.out = -D

\* The wrap was applied to arc lengths half a track apart, the second behind.
C10_Witness ==
    /\ calc.fn = "travel" /\ calc.done
    /\ 2 * Separation = -calc.total_length
    /\ calc.out = Separation

\* C10 as stated: travel is congruent to L2 - L1 modulo T and lies in
\* (-T/2, +T/2], and equals the separation D whenever |D| <= T/2.
C10_TravelWrapHalfOpenAbove ==
    (calc.fn = "travel" /\ calc.done) =>
        LET T == calc.total_length
            D == Separation
        IN  /\ (calc.out - D) % T = 0
            /\ 2 * calc.out > -T
            /\ 2 * calc.out <= T
            /\ 2 * Abs(D) <= T => calc.out = D

(***************************************************************************)
(* Properties of observe                                                   *)
(***************************************************************************)

C9_ObserveAndConfigFrame ==
    [][/\ env'.sim.config = env.sim.config
       /\ env'.sim.road = env.sim.road
       /\ env'.observe_delta = env.observe_delta
       /\ env'.observe_speed = env.observe_speed
       /\ DOMAIN env'.sim = {"config", "road", "state", "t", "i"}
       /\ ret'.op = "observe" =>
            /\ env' = env
            /\ ret.op = "observe" => ret'.data = ret.data
      ]_vars

\* An observation was taken after the car had moved, with a time step that is
\* not the default.
C9_Witness ==
    /\ ret.op = "observe" /\ hist.steps > 0
    /\ env.sim.config.dt # SimConfigDefault.dt
    /\ env.sim.state # CarStateDefault


(***************************************************************************)
(* The reward of a step                                                    *)
(***************************************************************************)

\* The reward of the claim without its crash term, from the closest points c1
\* of the position before the step and c2 of the position after it
RewardTerms(spline, rcfg, dt, c1, c2) ==
    Mul(rcfg.travel_coeff,
        Travel(SplineArcLength(spline, c1.parameter),
               SplineArcLength(spline, c2.parameter),
               SplineTotalLength(spline)))
      + Mul(rcfg.center_coeff, c2.distance_sq - c1.distance_sq)
      - Mul(Mul(rcfg.center_integral_coeff, c2.distance_sq), dt)

C12_NewHasSegment ==
    (calc.fn = "new" /\ calc.out.ok) =>
        /\ Len(calc.out.spline.segments) >= 1
        /\ calc.out.spline.max_u >= ONE

\* C16, as the code has it: on a spline of N segments and for u1 <= u2 in
\* [0, N], arc_length(u1) and arc_length(u2) are >= 0 and arc_length(N) is
\* total_length; 0 <= arc_length(u1) <= arc_length(u2) <= total_length holds
\* when u1 and u2 are whole, and for all u1 <= u2 on the splines of the
\* tests and of the racetrack, whose controls all have a velocity.
C16_ArcLengthBounds ==
    (calc.fn = "arc_length" /\ calc.u1 <= calc.u2) =>
        /\ 0 <= calc.out.length1 /\ 0 <= calc.out.length2
        /\ calc.out.length_max = calc.out.total_length
        /\ ((calc.u1 % ONE = 0 /\ calc.u2 % ONE = 0)
             \/ \A k \in 1..Len(calc.controls) :
                    calc.controls[k].velocity # <<0, 0>>)
              => /\ calc.out.length1 <= calc.out.length2
                 /\ calc.out.length2 <= calc.out.total_length

\* The arc length was taken within the first segment and within the second
C16_Witness ==
    /\ calc.fn = "arc_length"
    /\ 0 < calc.u1 /\ calc.u1 < ONE
    /\ ONE < calc.u2 /\ calc.u2 < calc.spline.max_u
    /\ 0 < calc.out.length1 /\ calc.out.length1 < calc.out.length2
    /\ calc.out.length2 < calc.out.total_length

\* C16 as stated: on every spline of N segments, for u1 <= u2 in [0, N],
\* 0 <= arc_length(u1) <= arc_length(u2) <= arc_length(N) = total_length.
C16_ArcLengthMonotone ==
    (calc.fn = "arc_length" /\ calc.u1 <= calc.u2) =>
        /\ 0 <= calc.out.length1
        /\ calc.out.length1 <= calc.out.length2
        /\ calc.out.length2 <= calc.out.length_max
        /\ calc.out.length_max = calc.out.total_length

\* C17: segment i of the spline starts at the point of control i and ends
\* at the point of control i + 1, so get(k) is the point of control k for
\* every whole k in 0..N; at every interior joint the velocity at the end of
\* segment i is the velocity at the start of segment i + 1 and is 3 times the
\* velocity of the control between them.
C17_JointsContinuous ==
    calc.fn = "joints" =>
        /\ \A k \in 0..Len(calc.spline.segments) :
             calc.out.get[k] = calc.controls[k + 1].point
        /\ \A i \in 1..Len(calc.spline.segments) :
             /\ BezierGet(calc.spline.segments[i], 0) = calc.controls[i].point
             /\ BezierGet(calc.spline.segments[i], ONE)
                    = calc.controls[i + 1].point
        /\ \A i \in 1..(Len(calc.spline.segments) - 1) :
             /\ calc.out.end_velocity[i] = calc.out.velocity[i]
             /\ calc.out.velocity[i]
                    = BezierVelocity(calc.spline.segments[i + 1], 0)
             /\ calc.out.velocity[i]
                    = <<3 * calc.controls[i + 1].velocity[1],
                        3 * calc.controls[i + 1].velocity[2]>>

\* The joints of a spline of two segments were taken
C17_Witness ==
    /\ calc.fn = "joints"
    /\ Len(calc.spline.segments) = 2
    /\ calc.out.end_velocity[1] # <<0, 0>>
    /\ calc.out.get[1] # calc.out.get[0]

(***************************************************************************)
(* The road                                                                *)
(***************************************************************************)

\* The squared distance of a point from the centerline of the oval
CenterDistanceSq(point) ==
    SplineClosestPoint(make_oval.spline, point).distance_sq

\* The back point of the claim: position - unit_forward*back_axle
BackPoint(state) ==
    VSub(state.position, VScale(state.unit_forward, CarConfigDefault.back_axle))

\* The front point of the claim: back point + unit_forward*length
FrontPoint(state) ==
    VAdd(BackPoint(state), VScale(state.unit_forward, CarConfigDefault.length))

\* (width/2)^2
HalfWidthSq == Mul(make_oval.width \div 2, make_oval.width \div 2)

\* C13: is_crashed is true iff the back point or the front point is not
\* inside, a point being inside iff its squared distance from the closest
\* point of the spline is strictly less than (width/2)^2; a point at exactly
\* width/2 from the centerline is outside.
C13_CrashedIffAxleOutside ==
    calc.fn = "is_crashed" =>
        /\ calc.out = (\/ ~(CenterDistanceSq(BackPoint(calc.state)) < HalfWidthSq)
                       \/ ~(CenterDistanceSq(FrontPoint(calc.state)) < HalfWidthSq))
        /\ (\/ CenterDistanceSq(BackPoint(calc.state)) = HalfWidthSq
            \/ CenterDistanceSq(FrontPoint(calc.state)) = HalfWidthSq)
             => calc.out

\* A car is crashed whose back point is at exactly width/2 from the
\* centerline and whose front point is nearer
C13_Witness ==
    /\ calc.fn = "is_crashed" /\ calc.out
    /\ CenterDistanceSq(BackPoint(calc.state)) = HalfWidthSq
    /\ CenterDistanceSq(FrontPoint(calc.state)) < HalfWidthSq

\* C14: when the origin of a ray is not inside the track, ray_collision
\* returns the origin, so every reading taken from a car position that is not
\* inside is exactly 0.
C14_OutsideReadsZero ==
    (calc.fn = "read_lidar"
       /\ ~(CenterDistanceSq(calc.state.position) < HalfWidthSq)) =>
        \A j \in 1..n_angles(calc.lidar) :
            /\ calc.intersections[j] = calc.state.position
            /\ calc.out[j] = 0

\* Readings were taken from a car beyond the edge of the track
C14_Witness ==
    /\ calc.fn = "read_lidar"
    /\ CenterDistanceSq(calc.state.position) > HalfWidthSq
    /\ n_angles(calc.lidar) = 5
    /\ \A j \in 1..5 : calc.out[j] = 0

\* The direction of ray j of the fan of the placed car
RayDirection(j) == Rotate(calc.state.unit_forward, calc.lidar.angles[j])

\* The offset of the intersection of ray j to the side of its direction
Lateral(j) ==
    Dot(Rotate90(RayDirection(j)),
        VSub(calc.intersections[j], calc.state.position))

\* C15: when the car position is inside the track, every reading of
\* read_lidar is a finite number >= 0, for every angle of the fan: the
\* intersection is the origin plus a nonnegative multiple of the direction
\* of the ray (to the rounding of the arithmetic, ONE \div 512).
C15_InsideReadsNonNegative ==
    (calc.fn = "read_lidar"
       /\ CenterDistanceSq(calc.state.position) < HalfWidthSq) =>
        \A j \in 1..n_angles(calc.lidar) :
            /\ calc.out[j] \in 0..(INFINITY - 1)
            /\ calc.out[j] = Dot(RayDirection(j),
                                 VSub(calc.intersections[j], calc.state.position))
            /\ Abs(Lateral(j)) <= ONE \div 512

\* Readings were taken from a car inside the track, and every ray went on
C15_Witness ==
    /\ calc.fn = "read_lidar"
    /\ CenterDistanceSq(calc.state.position) < HalfWidthSq
    /\ n_angles(calc.lidar) = 5
    /\ \A j \in 1..5 : calc.out[j] > 0
    /\ \E j \in 1..5 : calc.out[j] > 8 * ONE

(***************************************************************************)
(* LidarArray::new applied on its own, to strictly increasing lists of     *)
(* positive whole degrees.                                                 *)
(***************************************************************************)

\* The most angles of a list handed to LidarArray::new
MaxAngles == 3

\* The degrees the lists are drawn from: those of LidarArray::default
DefaultDegrees == {1, 2, 5, 10, 30, 45, 60, 90, 120}

\* The elements of a set of numbers, in increasing order
RECURSIVE Ascending(_)
Ascending(S) ==
    IF S = {} THEN <<>>
    ELSE <<SetMin(S)>> \o Ascending(S \ {SetMin(S)})

\* A list of at most MaxAngles of the default degrees is drawn
InitLidar ==
    /\ env = NoEnv
    /\ ret = [op |-> "none"]
    /\ hist = [steps |-> 0, done_seen |-> FALSE]
    /\ \E S \in SUBSET DefaultDegrees :
          /\ Cardinality(S) <= MaxAngles
          /\ calc = [fn |-> "degrees", angles |-> Ascending(S)]

\* LidarArray::new applied to the drawn list
ApplyLidarNew ==
    /\ calc.fn = "degrees"
    /\ calc' = [fn |-> "lidar_new", angles |-> calc.angles,
                out |-> LidarArray(calc.angles)]
    /\ UNCHANGED <<env, ret, hist>>

NextLidar == ApplyLidarNew

\* LidarArray::new on its own
SpecLidar == InitLidar /\ [][NextLidar]_vars

(***************************************************************************)
(* C18: the fan of LidarArray::new                                         *)
(***************************************************************************)

\* C18: LidarArray::new on a positive strictly increasing list of K degrees
\* yields 2K+1 angles in radians: an odd number of them, the middle one 0,
\* the given angles after it, element j the negation of element 2K-j
\* (counting from 0), and the list strictly increasing.
C18_LidarLayout ==
    calc.fn = "lidar_new" =>
        /\ n_angles(calc.out) = 2 * Len(calc.angles) + 1
        /\ n_angles(calc.out) % 2 = 1
        /\ calc.out.angles[Len(calc.angles) + 1] = 0
        /\ \A i \in 1..Len(calc.angles) :
              calc.out.angles[Len(calc.angles) + 1 + i]
                  = ToRadians(calc.angles[i])
        /\ \A j \in 0..(2 * Len(calc.angles)) :
              calc.out.angles[j + 1]
                  = -calc.out.angles[2 * Len(calc.angles) - j + 1]
        /\ \A j \in 1..(2 * Len(calc.angles)) :
              calc.out.angles[j] < calc.out.angles[j + 1]

\* A fan of the most angles has been built from a list starting at 1 degree
C18_Witness ==
    /\ calc.fn = "lidar_new"
    /\ Len(calc.angles) = MaxAngles
    /\ calc.angles[1] = 1
    /\ n_angles(calc.out) = 2 * MaxAngles + 1
    /\ calc.out.angles[1] < 0

(***************************************************************************)
(* C20: the speeds of a step                                               *)
(***************************************************************************)

\* The state update returns when the car travels the given arc in the step
UpdateTravelling(arc) ==
    UpdateOnCircle(calc.state,
        steer_update(calc.state.steer_delta, calc.input.target_delta,
                     calc.dt, CarConfigDefault),
        Max(0, calc.state.speed
                 + SpeedChange(calc.state.speed, calc.input, calc.dt,
                               CarConfigDefault)),
        inv_turn_radius(CarConfigDefault,
            steer_update(calc.state.steer_delta, calc.input.target_delta,
                         calc.dt, CarConfigDefault)),
        arc)

\* speed + 0.5*dv of the applied update
MeanSpeed ==
    calc.state.speed
      + Mul(HALF, SpeedChange(calc.state.speed, calc.input, calc.dt,
                              CarConfigDefault))

\* C20: the new speed is max(0, speed + dv); the arc of the step is
\* (speed + 0.5*dv)*dt when speed and speed + 0.5*dv are both positive, and
\* 0 otherwise: when the average crosses zero, is zero, or the car is at
\* rest.  A moving car (speed > 0) that is not braking and has
\* forward_acc >= 0 travels (speed + 0.5*dv)*dt.
C20_StepSpeeds ==
    (calc.fn = "update" /\ calc.done) =>
        /\ calc.out.speed
             = Max(0, calc.state.speed
                        + SpeedChange(calc.state.speed, calc.input, calc.dt,
                                      CarConfigDefault))
        /\ (calc.state.speed > 0 /\ MeanSpeed > 0)
             => calc.out = UpdateTravelling(Mul(MeanSpeed, calc.dt))
        /\ (calc.state.speed = 0 \/ MeanSpeed <= 0)
             => calc.out = UpdateTravelling(0)
        /\ (calc.state.speed > 0 /\ ~calc.input.braking
                /\ calc.input.forward_acc >= 0)
             => calc.out = UpdateTravelling(Mul(MeanSpeed, calc.dt))

\* A car at rest has accelerated for a step: it has gained speed and has
\* not moved
C20_Witness ==
    /\ calc.fn = "update" /\ calc.done
    /\ calc.state.speed = 0 /\ calc.state.steer_delta = 0
    /\ ~calc.input.braking /\ calc.input.forward_acc > 0
    /\ calc.input.target_delta = 0
    /\ calc.dt = ONE
    /\ MeanSpeed = 3 * ONE
    /\ calc.out.speed = 6 * ONE
    /\ calc.out.position = <<0, 0>>

\* C20 as stated: every car with speed >= 0 that is not braking and has
\* forward_acc >= 0 travels the arc (speed + 0.5*dv)*dt.
C20_ArcFromRest ==
    (calc.fn = "update" /\ calc.done /\ calc.state.speed >= 0
        /\ ~calc.input.braking /\ calc.input.forward_acc >= 0)
        => calc.out = UpdateTravelling(Mul(MeanSpeed, calc.dt))

(***************************************************************************)
(* C21: the side of the lateral displacement                               *)
(***************************************************************************)

\* signed_radians_traversed of the applied update
SweptAngle ==
    Mul(Mul(AvgSpeed(calc.state.speed, MeanSpeed), calc.dt),
        inv_turn_radius(CarConfigDefault, calc.out.steer_delta))

\* The drawn state and input with the wheel and its target negated
Mirrored(x) == [x EXCEPT !.state.steer_delta = -calc.state.steer_delta,
                         !.input.target_delta = -calc.input.target_delta]

\* C21: the lateral displacement of a step points to the left of
\* unit_forward (here the y axis) when the signed swept angle is positive
\* and to the right when it is negative, in both branches; and negating
\* steer_delta and its target mirrors the displacement across the forward
\* axis.
C21_LateralFollowsTurn ==
    (calc.fn = "update" /\ calc.done) =>
        /\ SweptAngle > 0 => calc.out.position[2] >= 0
        /\ SweptAngle < 0 => calc.out.position[2] <= 0
        /\ CarStateUpdate(Mirrored(calc).state, Mirrored(calc).input,
                          calc.dt, CarConfigDefault).position
             = <<calc.out.position[1], -calc.out.position[2]>>

\* C21 in the small-angle branch only (|phi| <= 1)
C21_SmallAngleFollowsTurn ==
    (calc.fn = "update" /\ calc.done /\ Abs(SweptAngle) <= ONE) =>
        /\ SweptAngle > 0 => calc.out.position[2] >= 0
        /\ SweptAngle < 0 => calc.out.position[2] <= 0
        /\ CarStateUpdate(Mirrored(calc).state, Mirrored(calc).input,
                          calc.dt, CarConfigDefault).position
             = <<calc.out.position[1], -calc.out.position[2]>>

(***************************************************************************)
(* CarState::update applied again and again with one input, as the loops   *)
(* of the tests of physics.rs do: state = state.update(&input, dt, &config)*)
(***************************************************************************)

\* The number of updates of a run: that of test_inertial
MaxRunSteps == 32

\* The configuration of the tests of physics.rs
TestConfig ==
    [CarConfigDefault EXCEPT !.length = ONE, !.back_axle = 0,
                             !.front_axle = ONE]

\* A run is set up: a configuration, a state at the origin with a speed, a
\* heading and a wheel angle, an input that neither accelerates nor brakes
\* with a wheel target, and a time step
InitRun ==
    /\ env = NoEnv
    /\ ret = [op |-> "none"]
    /\ hist = [steps |-> 0, done_seen |-> FALSE]
    /\ \E config \in {CarConfigDefault, TestConfig},
          speed \in {0, ONE},
          unit_forward \in {<<ONE, 0>>, <<0, -ONE>>},
          delta \in WheelAngles, target \in WheelAngles,
          dt \in {ONE \div 16, ToFixed(SimConfigDefault.dt), ONE} :
          calc = [fn |-> "run", config |-> config, dt |-> dt, steps |-> 0,
                  input |-> [forward_acc |-> 0, target_delta |-> target,
                             braking |-> FALSE],
                  start |-> [position |-> <<0, 0>>, speed |-> speed,
                             unit_forward |-> unit_forward,
                             steer_delta |-> delta],
                  state |-> [position |-> <<0, 0>>, speed |-> speed,
                             unit_forward |-> unit_forward,
                             steer_delta |-> delta]]

\* One pass of the loop: state = state.update(&input, dt, &config)
RunStep ==
    /\ calc.fn = "run"
    /\ calc.steps < MaxRunSteps
    /\ calc' = [calc EXCEPT
                  !.state = CarStateUpdate(calc.state, calc.input, calc.dt,
                                           calc.config),
                  !.steps = calc.steps + 1]
    /\ UNCHANGED <<env, ret, hist>>

NextRun == RunStep

\* Runs of update
SpecRun == InitRun /\ [][NextRun]_vars

(***************************************************************************)
(* CarState::steer_update applied again and again with one target, as the  *)
(* updates of a caller that holds its input do: only the wheel is followed.*)
(***************************************************************************)

\* A wheel angle, a wheel target and a time step are drawn
InitSteer ==
    /\ env = NoEnv
    /\ ret = [op |-> "none"]
    /\ hist = [steps |-> 0, done_seen |-> FALSE]
    /\ \E delta \in WheelAngles, target_delta \in WheelAngles,
          dt \in {ONE \div 16, ToFixed(SimConfigDefault.dt), ONE} :
          calc = [fn |-> "steer", dt |-> dt, start |-> delta,
                  delta |-> delta, target_delta |-> target_delta]

\* The steer_update of one more update
SteerStep ==
    /\ calc.fn = "steer"
    /\ calc' = [calc EXCEPT
                  !.delta = steer_update(calc.delta, calc.target_delta,
                                         calc.dt, CarConfigDefault)]
    /\ UNCHANGED <<env, ret, hist>>

NextSteer == SteerStep

\* The wheel under updates with one target; the caller always makes its
\* next update
SpecSteer == InitSteer /\ [][NextSteer]_vars /\ WF_vars(SteerStep)

(***************************************************************************)
(* C19: the wheel approaches its target                                    *)
(***************************************************************************)

\* The wheel has moved from its old angle toward the target by the given
\* amount and lies between the two
MovedToward(old, new, target, amount) ==
    /\ Abs(new - old) = amount
    /\ Min(old, target) <= new
    /\ new <= Max(old, target)

\* C19: an update moves steer_delta to a value between the old steer_delta
\* and target_delta that differs from the old one by
\* min(|target_delta - steer_delta|, dt*steer_speed), so the wheel never
\* overshoots; with a constant target the wheel is at the target after
\* finitely many updates and stays there.
C19_SteerConverges ==
    /\ [][calc.fn = "steer" =>
            MovedToward(calc.delta, calc'.delta, calc.target_delta,
                        Min(Abs(calc.target_delta - calc.delta),
                            Mul(calc.dt, CarConfigDefault.steer_speed)))]_vars
    /\ <>[](calc.delta = calc.target_delta)

\* The wheel has gone from one limit to the other in steps of 0.2 * 0.7
C19_Witness ==
    /\ calc.fn = "steer"
    /\ calc.start = -CarConfigDefault.max_delta
    /\ calc.target_delta = CarConfigDefault.max_delta
    /\ calc.dt = ToFixed(SimConfigDefault.dt)
    /\ calc.delta = calc.target_delta

(***************************************************************************)
(* C22: the car that coasts straight on                                    *)
(***************************************************************************)

\* C22: with steer_delta = 0 and the input (forward_acc = 0,
\* target_delta = 0, not braking) every update leaves speed, unit_forward
\* and steer_delta unchanged and moves position by exactly speed*dt along
\* unit_forward, so after n updates the car is n*speed*dt from its start.
C22_CoastsStraight ==
    (calc.fn = "run" /\ calc.start.steer_delta = 0
        /\ calc.input.target_delta = 0) =>
        /\ calc.state.speed = calc.start.speed
        /\ calc.state.unit_forward = calc.start.unit_forward
        /\ calc.state.steer_delta = 0
        /\ calc.state.position
             = <<calc.steps * VScale(calc.start.unit_forward,
                                     Mul(calc.start.speed, calc.dt))[1],
                 calc.steps * VScale(calc.start.unit_forward,
                                     Mul(calc.start.speed, calc.dt))[2]>>

\* test_inertial: 32 updates with dt = 1/16 from (0,0), speed 1, heading
\* (1,0) have ended at (2,0) with heading (1,0) and speed 1
C22_Witness ==
    /\ calc.fn = "run" /\ calc.config = TestConfig
    /\ calc.start.steer_delta = 0 /\ calc.input.target_delta = 0
    /\ calc.start.speed = ONE /\ calc.start.unit_forward = <<ONE, 0>>
    /\ calc.dt = ONE \div 16
    /\ calc.steps = 32
    /\ calc.state.position = <<2 * ONE, 0>>
    /\ calc.state.unit_forward = <<ONE, 0>>
    /\ calc.state.speed = ONE

(***************************************************************************)
(* find_root applied on its own to the closure of test_root, x*x - c, on   *)
(* intervals with ends among a few points, in either order.                *)
(***************************************************************************)

\* The ends of the intervals reach from -MaxEnd to MaxEnd
MaxEnd == 5

\* The ends: the whole numbers, and pi as test_root has it
Ends == {j * ONE : j \in (-MaxEnd)..MaxEnd} \cup {PI}

\* The width thresholds: none, that of test_root (1e-3) and a wide one
Thresholds == {0, ONE \div 1000, ONE}

\* A closure, an interval and a threshold are drawn
InitRoot ==
    /\ env = NoEnv
    /\ ret = [op |-> "none"]
    /\ hist = [steps |-> 0, done_seen |-> FALSE]
    /\ \E c \in {0, 2 * ONE, 9 * ONE}, x_min \in Ends, x_max \in Ends,
          width_threshold \in Thresholds :
          calc = [fn |-> "root_args", f |-> [kind |-> "square", c |-> c],
                  x_min |-> x_min, x_max |-> x_max,
                  width_threshold |-> width_threshold]

\* find_root applied to the drawn arguments, with the number of midpoints
\* it evaluated
ApplyFindRoot ==
    /\ calc.fn = "root_args"
    /\ calc' = [fn |-> "find_root", f |-> calc.f, x_min |-> calc.x_min,
                x_max |-> calc.x_max,
                width_threshold |-> calc.width_threshold,
                out |-> find_root(calc.f, calc.x_min, calc.x_max,
                                  calc.width_threshold),
                midpoints |-> MidpointsBetween(calc.f,
                                  ObservationAt(calc.f, calc.x_min),
                                  ObservationAt(calc.f, calc.x_max),
                                  calc.width_threshold)]
    /\ UNCHANGED <<env, ret, hist>>

NextRoot == ApplyFindRoot

\* find_root on its own
SpecRoot == InitRoot /\ [][NextRoot]_vars

(***************************************************************************)
(* C23: the first match of find_root                                       *)
(***************************************************************************)

\* C23: find_root(f, a, b, eps) returns a when f(a) is 0, otherwise b when
\* f(b) is 0, and None without evaluating a midpoint when f(a) and f(b) are
\* both positive or both negative; in every other case it returns Some.
C23_FirstMatch ==
    calc.fn = "find_root" =>
        /\ Eval(calc.f, calc.x_min) = 0
             => calc.out = Some(calc.x_min) /\ calc.midpoints = 0
        /\ (Eval(calc.f, calc.x_min) # 0 /\ Eval(calc.f, calc.x_max) = 0)
             => calc.out = Some(calc.x_max) /\ calc.midpoints = 0
        /\ (Eval(calc.f, calc.x_min) > 0 /\ Eval(calc.f, calc.x_max) > 0)
             => calc.out = None /\ calc.midpoints = 0
        /\ (Eval(calc.f, calc.x_min) < 0 /\ Eval(calc.f, calc.x_max) < 0)
             => calc.out = None /\ calc.midpoints = 0
        /\ (Eval(calc.f, calc.x_min) > 0 /\ Eval(calc.f, calc.x_max) < 0)
             => calc.out.some
        /\ (Eval(calc.f, calc.x_min) < 0 /\ Eval(calc.f, calc.x_max) > 0)
             => calc.out.some

\* find_root has been applied to x*x - 9 on [-3, 3], with a root at either
\* end, and has returned the left one
C23_Witness ==
    /\ calc.fn = "find_root"
    /\ calc.f.c = 9 * ONE
    /\ calc.x_min = -3 * ONE /\ calc.x_max = 3 * ONE
    /\ Eval(calc.f, calc.x_max) = 0
    /\ calc.out = Some(-3 * ONE)

(***************************************************************************)
(* C24: the loop of find_root                                              *)
(***************************************************************************)

\* The ends of the drawn interval have values of opposite sign
OppositeEnds ==
    \/ Eval(calc.f, calc.x_min) < 0 /\ Eval(calc.f, calc.x_max) > 0
    \/ Eval(calc.f, calc.x_min) > 0 /\ Eval(calc.f, calc.x_max) < 0

\* The midpoint of a bracket <<left, right>>
Midpoint(bracket) == Mul(HALF, bracket[1] + bracket[2])

\* The half of a bracket that keeps the sign change: the midpoint replaces
\* the end whose value has its sign
HalfBracket(bracket) ==
    IF Signum(Eval(calc.f, Midpoint(bracket)))
         = Signum(Eval(calc.f, bracket[1]))
    THEN <<Midpoint(bracket), bracket[2]>>
    ELSE <<bracket[1], Midpoint(bracket)>>

\* The bracket after k halvings of the drawn interval
RECURSIVE Bracket(_)
Bracket(k) ==
    IF k = 0 THEN <<calc.x_min, calc.x_max>>
    ELSE The({HalfBracket(b) : b \in {Bracket(k - 1)}})

\* The loop goes on from the bracket after k halvings
GoesOn(k) ==
    /\ Bracket(k)[2] - Bracket(k)[1] > calc.width_threshold
    /\ k < 20

MaxPoint == 2

\* The arguments are drawn: a closure with its derivative, an interval with
\* whole ends and a threshold; or a segment of the oval and a point
InitMin ==
    /\ env = NoEnv
    /\ ret = [op |-> "none"]
    /\ hist = [steps |-> 0, done_seen |-> FALSE]
    /\ \/ \E c \in {0, 9 * ONE},
             i \in (-MaxEnd)..MaxEnd, j \in (-MaxEnd)..MaxEnd,
             width_threshold \in Thresholds :
             /\ i <= j
             /\ calc = [fn |-> "min_args",
                        f |-> [kind |-> "square", c |-> c],
                        fp |-> [kind |-> "dsquare"],
                        x_min |-> i * ONE, x_max |-> j * ONE,
                        width_threshold |-> width_threshold]
       \/ \E n \in 1..Len(make_oval.spline.segments),
             i \in (-MaxPoint - 1)..MaxPoint, j \in (-MaxPoint)..MaxPoint :
             calc = [fn |-> "closest_args",
                     seg |-> make_oval.spline.segments[n],
                     point |-> <<i * 10 * ONE, j * 10 * ONE + 5 * ONE>>]

\* find_min_differentiable applied to the drawn arguments
ApplyFindMin ==
    /\ calc.fn = "min_args"
    /\ calc' = [fn |-> "find_min", f |-> calc.f, fp |-> calc.fp,
                x_min |-> calc.x_min, x_max |-> calc.x_max,
                width_threshold |-> calc.width_threshold,
                out |-> find_min_differentiable(calc.f, calc.fp, calc.x_min,
                            calc.x_max, calc.width_threshold)]
    /\ UNCHANGED <<env, ret, hist>>

\* CubicBezier::closest_point applied to the drawn segment and point
ApplyClosestPoint ==
    /\ calc.fn = "closest_args"
    /\ calc' = [fn |-> "closest_point", seg |-> calc.seg,
                point |-> calc.point,
                out |-> BezierClosestPoint(calc.seg, calc.point)]
    /\ UNCHANGED <<env, ret, hist>>

NextMin == ApplyFindMin \/ ApplyClosestPoint

\* find_min_differentiable and CubicBezier::closest_point on their own
SpecMin == InitMin /\ [][NextMin]_vars

(***************************************************************************)
(* C25: the minimum is no worse than the grid                              *)
(***************************************************************************)

\* The i-th point of the grid of the drawn interval
GridPoint(i) == calc.x_min + i * TDiv(calc.x_max - calc.x_min, 32)

\* C25: find_min_differentiable returns a point x in [a, b] with the value
\* f(x), and that value is <= f at each of the 33 grid samples, which
\* include a and b; when it is not strictly smaller than every sample, the
\* point is a grid point.  CubicBezier::closest_point returns a parameter in
\* [0, 1] and a distance_sq that is >= 0 and at most the squared distances
\* to get(0) and get(1).
C25_MinBelowGrid ==
    /\ calc.fn = "find_min" =>
          /\ calc.x_min <= calc.out.x /\ calc.out.x <= calc.x_max
          /\ calc.out.value = Eval(calc.f, calc.out.x)
          /\ GridPoint(0) = calc.x_min /\ GridPoint(32) = calc.x_max
          /\ \A i \in 0..32 : calc.out.value <= Eval(calc.f, GridPoint(i))
          /\ (\E i \in 0..32 : calc.out.value = Eval(calc.f, GridPoint(i)))
               => \E i \in 0..32 : calc.out.x = GridPoint(i)
    /\ calc.fn = "closest_point" =>
          /\ 0 <= calc.out.parameter /\ calc.out.parameter <= ONE
          /\ 0 <= calc.out.distance_sq
          /\ calc.out.distance_sq
               <= NormSq(VSub(calc.point, BezierGet(calc.seg, 0)))
          /\ calc.out.distance_sq
               <= NormSq(VSub(calc.point, BezierGet(calc.seg, ONE)))

\* closest_point has returned a point within a segment, found from the root
\* of the derivative and strictly closer than every grid sample
C25_Witness ==
    /\ calc.fn = "closest_point"
    /\ 0 < calc.out.parameter /\ calc.out.parameter < ONE
    /\ calc.out.parameter % GridDx # 0
    /\ \A i \in 0..32 :
          calc.out.distance_sq
            < NormSq(VSub(calc.point, BezierGet(calc.seg, i * GridDx)))

(***************************************************************************)
(* segment_and_t applied on its own, to the splines of the control lists   *)
(* and parameters from below 0 to above the number of segments.            *)
(***************************************************************************)

\* The parameters u: the quarters from -1 to MaxControls, and the values a
\* quantum below and above the whole numbers
Parameters ==
    {j * (ONE \div 4) : j \in (-4)..(4 * MaxControls)}
        \cup {k * ONE - 1 : k \in 0..MaxControls}
        \cup {k * ONE + 1 : k \in 0..MaxControls}

\* Two or more controls of a list and a parameter are drawn
InitSegment ==
    /\ env = NoEnv
    /\ ret = [op |-> "none"]
    /\ hist = [steps |-> 0, done_seen |-> FALSE]
    /\ \E controls \in ControlLists, u \in Parameters :
         \E n \in 2..Min(MaxControls, Len(controls)) :
           calc = [fn |-> "parameter", controls |-> SubSeq(controls, 1, n),
                   u |-> u]

\* segment_and_t applied to the spline of the drawn controls and the
\* parameter: the index and the local parameter it returns
ApplySegmentAndT ==
    /\ calc.fn = "parameter"
    /\ calc' \in {[fn |-> "segment_and_t", controls |-> calc.controls,
                    u |-> calc.u, segments |-> Len(spline.segments),
                    max_u |-> spline.max_u,
                    out |-> segment_and_t(spline, calc.u)] :
                      spline \in {SmoothBezierSpline(calc.controls)}}
    /\ UNCHANGED <<env, ret, hist>>

NextSegment == ApplySegmentAndT

\* segment_and_t on its own
SpecSegment == InitSegment /\ [][NextSegment]_vars

(***************************************************************************)
(* C26: the segment and the local parameter of u                           *)
(***************************************************************************)

\* C26: for a spline of N >= 1 segments and every u, segment_and_t returns
\* an index i in 0..N-1, within the segment list, and a local t in [0, 1]:
\* (N-1, 1) for u >= N, (0, 0) for u <= 0, and otherwise the integer part
\* and the fractional part of u.
C26_SegmentAndT ==
    calc.fn = "segment_and_t" =>
        /\ calc.segments >= 1 /\ calc.max_u = calc.segments * ONE
        /\ calc.out.i \in 0..(calc.segments - 1)
        /\ 0 <= calc.out.t /\ calc.out.t <= ONE
        /\ calc.u >= calc.segments * ONE
             => calc.out = [i |-> calc.segments - 1, t |-> ONE]
        /\ calc.u <= 0 => calc.out = [i |-> 0, t |-> 0]
        /\ (0 < calc.u /\ calc.u < calc.segments * ONE)
             => /\ calc.out.i * ONE <= calc.u
                /\ calc.u < (calc.out.i + 1) * ONE
                /\ calc.out.t = calc.u - calc.out.i * ONE

\* segment_and_t has been applied to a parameter that is exactly the number
\* of segments of a spline of two segments
C26_Witness ==
    /\ calc.fn = "segment_and_t"
    /\ calc.segments = 2
    /\ calc.u = 2 * ONE
    /\ calc.out = [i |-> 1, t |-> ONE]

(***************************************************************************)
(* BoundingBox::closest_point applied on its own, to boxes with            *)
(* min <= max on either axis and points in and around them.                *)
(***************************************************************************)

\* The sides of the boxes lie between -MaxBox and MaxBox
MaxBox == 1

\* The coordinates of the points: the halves from -MaxBox - 1 to MaxBox + 1
PointCoordinates == {j * HALF : j \in (-2 * MaxBox - 2)..(2 * MaxBox + 2)}

\* A box and a point are drawn
InitBox ==
    /\ env = NoEnv
    /\ ret = [op |-> "none"]
    /\ hist = [steps |-> 0, done_seen |-> FALSE]
    /\ \E min_x \in (-MaxBox)..MaxBox, max_x \in (-MaxBox)..MaxBox,
          min_y \in (-MaxBox)..MaxBox, max_y \in (-MaxBox)..MaxBox,
          x \in PointCoordinates, y \in PointCoordinates :
          /\ min_x <= max_x /\ min_y <= max_y
          /\ calc = [fn |-> "box",
                     box |-> BoundingBox(min_x * ONE, max_x * ONE,
                                         min_y * ONE, max_y * ONE),
                     point |-> <<x, y>>]

\* BoundingBox::closest_point applied to the drawn box and point
ApplyBoxClosestPoint ==
    /\ calc.fn = "box"
    /\ calc' = [fn |-> "box_closest_point", box |-> calc.box,
                point |-> calc.point,
                out |-> BBoxClosestPoint(calc.box, calc.point)]
    /\ UNCHANGED <<env, ret, hist>>

NextBox == ApplyBoxClosestPoint

\* BoundingBox::closest_point on its own
SpecBox == InitBox /\ [][NextBox]_vars

(***************************************************************************)
(* C28: the closest point of a box                                         *)
(***************************************************************************)

\* clamp(v, lo, hi)
Clamp(v, lo, hi) == IF v < lo THEN lo ELSE IF v > hi THEN hi ELSE v

\* C28: for a box with min_x <= max_x and min_y <= max_y and a point (x, y),
\* BoundingBox::closest_point returns (clamp(x, min_x, max_x),
\* clamp(y, min_y, max_y)) and never reaches its panic: a point in or on the
\* box maps to itself, a point beside an edge to its projection on the
\* edge, and a point beyond a corner to the corner.
C28_BoxClosestPoint ==
    calc.fn = "box_closest_point" =>
        /\ calc.out # "panic"
        /\ calc.out = <<Clamp(calc.point[1], calc.box.min_x, calc.box.max_x),
                        Clamp(calc.point[2], calc.box.min_y, calc.box.max_y)>>
        /\ (calc.box.min_x <= calc.point[1] /\ calc.point[1] <= calc.box.max_x
             /\ calc.box.min_y <= calc.point[2]
             /\ calc.point[2] <= calc.box.max_y)
             => calc.out = calc.point
        /\ (calc.point[1] < calc.box.min_x /\ calc.point[2] > calc.box.max_y)
             => calc.out = <<calc.box.min_x, calc.box.max_y>>
        /\ (calc.point[1] > calc.box.max_x /\ calc.box.min_y <= calc.point[2]
             /\ calc.point[2] <= calc.box.max_y)
             => calc.out = <<calc.box.max_x, calc.point[2]>>

\* test_bounding_box: the point (-2, 2) has been mapped to the corner
\* (-1, 1) of the box [-1, 1] x [-1, 1]
C28_Witness ==
    /\ calc.fn = "box_closest_point"
    /\ calc.box = BoundingBox(-ONE, ONE, -ONE, ONE)
    /\ calc.point = <<-2 * ONE, 2 * ONE>>
    /\ calc.out = <<-ONE, ONE>>

(***************************************************************************)
(* Chunking::get_chunk (src/car/state.rs), one pass of its while loop at a *)
(* time: pc is the position of the call, bottom and top its locals, and    *)
(* turn tells the passes of the loop apart (it changes at every pass).     *)
(***************************************************************************)

\* The most thresholds of a Chunking
MaxThresholds == 3

\* The values the thresholds are drawn from: those of test_chunking and 4.0
ThresholdValues == {ONE, 2 * ONE, 3 * ONE, 4 * ONE}

\* The readings: the halves from 0.5 to 4.5, those of test_chunking and the
\* thresholds themselves among them
Readings == {j * HALF : j \in 1..9}

\* get_chunk is called on a sorted, non-empty list of thresholds with a
\* reading
InitChunk ==
    /\ env = NoEnv
    /\ ret = [op |-> "none"]
    /\ hist = [steps |-> 0, done_seen |-> FALSE]
    /\ \E S \in SUBSET ThresholdValues, reading \in Readings :
          /\ S # {} /\ Cardinality(S) <= MaxThresholds
          /\ calc = [fn |-> "get_chunk", pc |-> "called",
                     distance_thresholds |-> Ascending(S),
                     reading |-> reading, bottom |-> 0, top |-> 0,
                     turn |-> 0]

\* get_chunk up to its loop: the two early returns, or bottom and top are
\* set (indices count from 0, as in the program)
ChunkEnter ==
    /\ calc.fn = "get_chunk" /\ calc.pc = "called"
    /\ calc' =
         IF calc.reading < calc.distance_thresholds[1]
         THEN [calc EXCEPT !.pc = "returned", !.bottom = 0]
         ELSE IF calc.reading
                   > calc.distance_thresholds[Len(calc.distance_thresholds)]
         THEN [calc EXCEPT !.pc = "returned",
                           !.bottom = Len(calc.distance_thresholds)]
         ELSE [calc EXCEPT !.pc = "loop", !.bottom = 0,
                           !.top = Len(calc.distance_thresholds) - 1]
    /\ UNCHANGED <<env, ret, hist>>

\* bottom after a pass of the loop with the given middle
BottomAfter(middle) ==
    IF calc.reading > calc.distance_thresholds[middle + 1] THEN middle
    ELSE calc.bottom

\* top after a pass of the loop with the given middle
TopAfter(middle) ==
    IF calc.reading < calc.distance_thresholds[middle + 1] THEN middle
    ELSE calc.top

\* One pass of the while loop
ChunkLoop ==
    /\ calc.fn = "get_chunk" /\ calc.pc = "loop"
    /\ calc.top - calc.bottom > 1
    /\ calc' = [calc EXCEPT
                  !.bottom = BottomAfter((calc.top + calc.bottom) \div 2),
                  !.top = TopAfter((calc.top + calc.bottom) \div 2),
                  !.turn = 1 - calc.turn]
    /\ UNCHANGED <<env, ret, hist>>

\* The loop is left and get_chunk returns bottom + 1
ChunkExit ==
    /\ calc.fn = "get_chunk" /\ calc.pc = "loop"
    /\ ~(calc.top - calc.bottom > 1)
    /\ calc' = [calc EXCEPT !.pc = "returned", !.bottom = calc.bottom + 1]
    /\ UNCHANGED <<env, ret, hist>>

NextChunk == ChunkEnter \/ ChunkLoop \/ ChunkExit

\* Calls of get_chunk; a call that can take its next step takes it
SpecChunk == InitChunk /\ [][NextChunk]_vars /\ WF_vars(NextChunk)

(***************************************************************************)
(* C30: get_chunk returns                                                  *)
(***************************************************************************)

\* C30: for every sorted, non-empty threshold list and every reading, a
\* reading equal to a threshold included, get_chunk terminates, and the
\* index it returns is in 0..len: 0 below the first threshold, len above
\* the last, and k strictly between thresholds k-1 and k.
C30_GetChunkReturns ==
    /\ <>(calc.pc = "returned")
    /\ [](calc.pc = "returned" =>
            /\ calc.bottom \in 0..Len(calc.distance_thresholds)
            /\ calc.reading < calc.distance_thresholds[1] => calc.bottom = 0
            /\ calc.reading
                  > calc.distance_thresholds[Len(calc.distance_thresholds)]
                 => calc.bottom = Len(calc.distance_thresholds)
            /\ \A k \in 1..(Len(calc.distance_thresholds) - 1) :
                  (calc.distance_thresholds[k] < calc.reading
                   /\ calc.reading < calc.distance_thresholds[k + 1])
                      => calc.bottom = k)

\* C30 for readings that equal no threshold
C30_ReturnsOffThresholds ==
    (\A k \in 1..Len(calc.distance_thresholds) :
        calc.reading # calc.distance_thresholds[k])
        => C30_GetChunkReturns

\* The loop has come to a pass that changes neither bottom nor top
C30_LoopStuck ==
    /\ calc.pc = "loop"
    /\ calc.top - calc.bottom > 1
    /\ calc.reading
         = calc.distance_thresholds[(calc.top + calc.bottom) \div 2 + 1]

(***************************************************************************)
(* SmoothBezierSpline::closest_point applied on its own, to the spline of  *)
(* the oval and the spline of the tests, and points of a grid around each. *)
(***************************************************************************)

\* The grid of points reaches MaxGrid steps from its centre on either axis
MaxGrid == 3

\* setup_spline of the tests of spline.rs
setup_spline ==
    SmoothBezierSpline(
        <<[point |-> <<0, 0>>, velocity |-> <<0, ONE>>],
          [point |-> <<ONE, 0>>, velocity |-> <<0, -ONE>>],
          [point |-> <<2 * ONE, 0>>, velocity |-> <<0, ONE>>]>>)

\* The splines searched, each with the centre and the step of its grid
Searched ==
    <<[spline |-> make_oval.spline, centre |-> <<-10 * ONE, 10 * ONE>>,
       step |-> 5 * ONE],
      [spline |-> setup_spline, centre |-> <<ONE, 0>>, step |-> 3 * HALF]>>

\* A spline and a point of its grid are drawn
InitSearch ==
    /\ env = NoEnv
    /\ ret = [op |-> "none"]
    /\ hist = [steps |-> 0, done_seen |-> FALSE]
    /\ \E k \in 1..Len(Searched),
          i \in (-MaxGrid)..MaxGrid, j \in (-MaxGrid)..MaxGrid :
          calc = [fn |-> "search", k |-> k,
                  point |-> <<Searched[k].centre[1] + i * Searched[k].step,
                              Searched[k].centre[2] + j * Searched[k].step>>]

\* SmoothBezierSpline::closest_point applied to the drawn spline and point
ApplySplineClosestPoint ==
    /\ calc.fn = "search"
    /\ calc' = [fn |-> "spline_closest_point", k |-> calc.k,
                point |-> calc.point,
                out |-> SplineClosestPoint(Searched[calc.k].spline,
                                           calc.point)]
    /\ UNCHANGED <<env, ret, hist>>

NextSearch == ApplySplineClosestPoint

\* SmoothBezierSpline::closest_point on its own
SpecSearch == InitSearch /\ [][NextSearch]_vars

(***************************************************************************)
(* C27: the pruned search finds what the search of every segment finds     *)
(***************************************************************************)

\* The segments of the spline searched
SearchedSegments == Searched[calc.k].spline.segments

\* The result of the segment-level closest_point on segment n (from 1)
OnSegment(n) == BezierClosestPoint(SearchedSegments[n], calc.point)

\* The first segment whose closest point is as close as any segment's
FirstClosest ==
    SetMin({n \in 1..Len(SearchedSegments) :
               \A m \in 1..Len(SearchedSegments) :
                   OnSegment(n).distance_sq <= OnSegment(m).distance_sq})

\* C27: the pruned closest_point returns what the search of every segment
\* returns: its distance_sq is the least over all the segments, its
\* parameter is the index of the first segment that attains it plus that
\* segment's local t, and lies in [0, N].
C27_PrunedIsUnpruned ==
    calc.fn = "spline_closest_point" =>
        /\ \A m \in 1..Len(SearchedSegments) :
              calc.out.distance_sq <= OnSegment(m).distance_sq
        /\ calc.out.distance_sq = OnSegment(FirstClosest).distance_sq
        /\ calc.out.parameter
             = (FirstClosest - 1) * ONE + OnSegment(FirstClosest).parameter
        /\ 0 <= calc.out.parameter
        /\ calc.out.parameter <= Len(SearchedSegments) * ONE

\* The search of the oval has returned a point while the box of some
\* segment was farther from the point than upper_bound, so that the segment
\* was not searched
C27_Witness ==
    /\ calc.fn = "spline_closest_point"
    /\ calc.k = 1
    /\ calc.out.distance_sq > 0
    /\ \E m \in 1..Len(SearchedSegments) :
          ClosestD2(Searched[1].spline, calc.point, m)
            > BoxScan(Searched[1].spline, calc.point).upper_bound

(***************************************************************************)
(* C29: the bracket of the bisection of ray_collision                      *)
(***************************************************************************)

\* step of ray_collision for ray j of the fan
RayStep(j) ==
    VScale(Normalized(RayDirection(j)), Mul(make_oval.width, ONE \div 10))

\* edge_deviation of ray_collision for a ray with the given step: the
\* closure from the last point inside that the stepping loop leaves
EdgeClosure(step) ==
    The({[kind |-> "edge", spline |-> make_oval.spline,
          inside_point |-> inside_point, step |-> step,
          max_d2 |-> make_oval.max_d2] :
            inside_point \in {InsidePoint(make_oval, calc.state.position,
                                          step)}})

\* edge_deviation of ray_collision for ray j of the fan
EdgeDeviation(j) == The({EdgeClosure(step) : step \in {RayStep(j)}})

\* The ray j of a car inside the track has its bracket: the last point
\* inside is inside, the deviation is negative at 0 and not negative at 1,
\* find_root returns a root t in [0, 1], and the intersection is the point
\* at t between the last point inside and the first point outside
BracketOfRay(fn, t) ==
    /\ point_inside(make_oval, fn.inside_point)
    /\ ~point_inside(make_oval, VAdd(fn.inside_point, fn.step))
    /\ Eval(fn, 0) < 0
    /\ Eval(fn, ONE) >= 0
    /\ t.some
    /\ 0 <= t.x /\ t.x <= ONE

\* C29: when ray_collision is called with an origin inside the track, its
\* stepping loop leaves a last point inside whose successor is outside, so
\* find_root is called on a bracket with edge_deviation(0) < 0 and
\* edge_deviation(1) >= 0; it returns a root t in [0, 1], the expect never
\* fails, and the point returned is the one at t on the segment from the
\* last point inside to the first point outside.
C29_BracketHasRoot ==
    (calc.fn = "read_lidar"
       /\ CenterDistanceSq(calc.state.position) < HalfWidthSq) =>
        \A j \in 1..n_angles(calc.lidar) :
            \A fn \in {EdgeDeviation(j)} :
                \A t \in {find_root(fn, 0, ONE, EpsClosest)} :
                    /\ BracketOfRay(fn, t)
                    /\ calc.intersections[j] # "panic"
                    /\ calc.intersections[j]
                         = VAdd(fn.inside_point, VScale(fn.step, t.x))

\* A ray of a car inside the track has ended strictly between its last
\* point inside, some steps from the car, and its first point outside
C29_Witness ==
    /\ calc.fn = "read_lidar"
    /\ CenterDistanceSq(calc.state.position) < HalfWidthSq
    /\ \E j \in 1..n_angles(calc.lidar) :
          \A fn \in {EdgeDeviation(j)} :
              /\ fn.inside_point # calc.state.position
              /\ Eval(fn, ONE) > 0
              /\ calc.intersections[j] # fn.inside_point
              /\ calc.intersections[j] # VAdd(fn.inside_point, fn.step)

====
